---- MODULE Spec2Model ----
(***************************************************************************)
(* A model of the ccc compiler driver (tools/ccc/ccclib/Driver.py): the    *)
(* handling of the leading -ccc- options, the construction of the phase    *)
(* pipeline (buildNormalPipeline, buildPipeline), the binding of phases to *)
(* jobs (bindPhases) and the sequential execution of the jobs (run).       *)
(*                                                                         *)
(* The modules Arguments, Phases, Types, Tools, Jobs and HostInfo that     *)
(* Driver.py imports are modelled from the specification's description of  *)
(* them.                                                                   *)
(***************************************************************************)
EXTENDS Integers, Sequences, FiniteSets, TLC

VARIABLES
    argv,             \* the command line handed to Driver.run
    useDriverDriver,  \* hostInfo.useDriverDriver()
    pc,               \* position of Driver.run
    cccOpts,          \* the -ccc- options seen at the start of argv
    args,             \* the parsed argument list
    nodes,            \* the heap of action nodes (identity = index)
    phases,           \* the top-level actions, as indices into nodes
    jobs,             \* the job list returned by bindPhases
    warnings,         \* the warnings written by self.warning
    printed,          \* the lines written by printPhases and by -###
    error,            \* the exception that ended the run, or NoError
    spawned,          \* indices of the jobs spawned so far, in spawn order
    running,          \* index of the job whose process is running, or 0
    statuses,         \* exit statuses of the processes that have exited
    exitStatus        \* status the driver exited with, or NotExited

vars == <<argv, useDriverDriver, pc, cccOpts, args, nodes, phases, jobs,
          warnings, printed, error, spawned, running, statuses, exitStatus>>

\* The state of utils/test/MultiTestRunner.py.
VARIABLES
    numThreads,       \* opts.numThreads
    tests,            \* len(provider.tests); the tests are 0 .. tests - 1
    opts,             \* opts.maxTime (set or not) and opts.debugDoNotTest
    testIndex,        \* provider.index
    lock,             \* the Tester holding provider.lock, or 0
    results,          \* provider.results, by test index + 1
    late,             \* time.time() - startTime > opts.maxTime
    tpc,              \* position of each Tester thread
    item,             \* the index each Tester got from its last get
    handed,           \* history: the items returned by get, in order
    written,          \* history: the calls of setResult, in order
    joined            \* main has joined every Tester

mtrVars == <<numThreads, tests, opts, testIndex, lock, results, late, tpc, item,
             handed, written, joined>>

----------------------------------------------------------------------------
(* Bounds of the model.                                                    *)

MaxArgs == 3
MaxOutArgs == 4
MaxArchArgs == 5
MaxErrArgs == 4
MaxLeadArgs == 3
MaxStatus == 2
MaxModeArgs == 4
MaxPipeArgs == 4
MaxTempsArgs == 4
MaxThreads == 3
MaxTests == 3

----------------------------------------------------------------------------
(* File names.  A name is kept as directory, base and suffix so that       *)
(* os.path.splitext and os.path.basename can be computed; n > 0 marks the  *)
(* n-th name reserved by tempfile.mkstemp.                                 *)

Path(dir, base, ext) == [dir |-> dir, base |-> base, ext |-> ext, n |-> 0]

NoValue == Path("", "", "")

Word(s) == Path("", s, "")

\* os.path.exists on the model's file system.
ExistingFiles == {Path("", "a", "c"), Path("", "b", "c"), Path("d", "a", "c"),
                  Path("", "bar", "o"), Path("", "foo", "m"),
                  Path("", "h", "h"), Path("", "x", "s")}

PathExists(p) == p \in ExistingFiles

\* os.path.splitext(p)[0] + '.' + suffix
WithSuffix(p, suffix) == [dir |-> p.dir, base |-> p.base, ext |-> suffix, n |-> 0]

\* os.path.basename(p)
Basename(p) == [dir |-> "", base |-> p.base, ext |-> p.ext, n |-> p.n]

\* tempfile.mkstemp(suffix='.'+suffix): the k-th reservation of the run.
MkStemp(k, suffix) == [dir |-> "tmp", base |-> "tmp", ext |-> suffix, n |-> k]

IsTempPath(p) == p.n > 0

----------------------------------------------------------------------------
(* Arguments.                                                              *)

Tok(opt, value) == [opt |-> opt, value |-> value]

Flag(opt) == Tok(opt, NoValue)

InputTok(p) == Tok("<input>", p)

NoArg == [opt |-> "<none>", value |-> NoValue, index |-> 0]

IsCccOption(tok) == tok.opt = "-ccc-"

\* Option schema: the options that are linker inputs.
IsLinkerInput(opt) == opt \in {"-l", "-filelist"}

\* arg.opt.name.startswith('-M')
StartsWithDashM(opt) == opt \in {"-M", "-MD", "-MM", "-MMD", "-MF"}

\* parser.parseArgs: one argument occurrence per option, in order.
ParseArgs(toks) ==
    [i \in 1..Len(toks) |->
        [opt |-> IF IsCccOption(toks[i]) THEN "<unknown>" ELSE toks[i].opt,
         value |-> toks[i].value,
         index |-> i]]

\* args.getLastArg(option): the last occurrence, or None.
GetLastArg(as, opt) ==
    LET occ == {i \in 1..Len(as) : as[i].opt = opt}
    IN IF occ = {} THEN NoArg
       ELSE as[CHOOSE i \in occ : \A j \in occ : j <= i]

\* args.makeSeparateArg(value, option): a derived argument.
MakeSeparateArg(value, opt) == [opt |-> opt, value |-> value, index |-> 0]

\* a or b, for two getLastArg results
OrArg(a, b) == IF a # NoArg THEN a ELSE b

HasSaveTemps(as) == OrArg(GetLastArg(as, "-save-temps"),
                          GetLastArg(as, "--save-temps"))

----------------------------------------------------------------------------
(* Types.                                                                  *)

NothingType == "nothing"
ObjectType == "object"
ImageType == "image"
PCHType == "precompiled-header"
AsmTypeNoPP == "assembler"
NoType == "<no type>"

\* klass.preprocess: the type after preprocessing, or None.
TypePreprocess(t) ==
    CASE t = "c" -> "cpp-output"
      [] t = "c++" -> "c++-cpp-output"
      [] t = "objective-c" -> "objective-c-cpp-output"
      [] t = "c-header" -> "c-header-cpp-output"
      [] t = "assembler-with-cpp" -> "assembler"
      [] OTHER -> NoType

TypeOnlyAssemble(t) == t \in {"assembler", "assembler-with-cpp"}

TypeOnlyPrecompile(t) == t \in {"c-header", "c-header-cpp-output"}

TypeTempSuffix(t) ==
    CASE t = "cpp-output" -> "i"
      [] t = "c++-cpp-output" -> "ii"
      [] t = "objective-c-cpp-output" -> "mi"
      [] t = "c-header-cpp-output" -> "pch"
      [] t = "assembler" -> "s"
      [] t = "precompiled-header" -> "gch"
      [] t = "object" -> "o"
      [] t = "image" -> "out"
      [] OTHER -> ""

\* Types.kTypeSuffixMap; "" stands for a suffix that is not in the map.
TypeOfSuffix(ext) ==
    CASE ext = "c" -> "c"
      [] ext = "i" -> "cpp-output"
      [] ext = "m" -> "objective-c"
      [] ext = "h" -> "c-header"
      [] ext = "cpp" -> "c++"
      [] ext = "s" -> "assembler"
      [] ext = "S" -> "assembler-with-cpp"
      [] OTHER -> ""

\* Types.kTypeSpecifierMap; "none" maps to None.
TypeSpecifiers == {"none", "c", "cpp-output", "c++", "c++-cpp-output",
                   "objective-c", "c-header", "assembler",
                   "assembler-with-cpp"}

----------------------------------------------------------------------------
(* Phases.                                                                 *)

eOrderPreprocess == 1
eOrderPrecompile == 2
eOrderCompile == 3
eOrderAssemble == 4
eOrderLink == 5
eOrderLipo == 6
eOrderPostAssemble == 7

PhaseObj(class, name, order) == [class |-> class, name |-> name, order |-> order]

PreprocessPhase == PhaseObj("PreprocessPhase", "preprocessor", eOrderPreprocess)
PrecompilePhase == PhaseObj("PrecompilePhase", "precompiler", eOrderPrecompile)
CompilePhase == PhaseObj("CompilePhase", "compiler", eOrderCompile)
AssemblePhase == PhaseObj("AssemblePhase", "assembler", eOrderAssemble)
LinkPhase == PhaseObj("LinkPhase", "linker", eOrderLink)
LipoPhase == PhaseObj("LipoPhase", "lipo", eOrderLipo)
NoPhase == PhaseObj("<none>", "", 0)

\* The three kinds of action node.
InputAction(filename, type) ==
    [class |-> "InputAction", phase |-> NoPhase, inputs |-> << >>,
     type |-> type, filename |-> filename, arch |-> NoArg]

JobAction(phase, inputs, type) ==
    [class |-> "JobAction", phase |-> phase, inputs |-> inputs,
     type |-> type, filename |-> NoArg, arch |-> NoArg]

BindArchAction(input, inputType, arch) ==
    [class |-> "BindArchAction", phase |-> NoPhase, inputs |-> <<input>>,
     type |-> inputType, filename |-> NoArg, arch |-> arch]

\* isinstance(x, cls) for an action node or a phase object
IsInstance(x, cls) == x.class = cls

----------------------------------------------------------------------------
(* Driver.buildNormalPipeline.                                             *)

Warning(kind, value) == [kind |-> kind, value |-> value]

NoError == "none"

NoInputFiles == "InvalidArguments: no input files"

MultipleFilesError ==
    "InvalidArguments: cannot specify -o when generating multiple files"

\* The type of a positional input when no -x is in force (lines 327-335).
ClassifyBySuffix(inputValue) ==
    IF inputValue.ext # "" /\ TypeOfSuffix(inputValue.ext) # ""
      THEN TypeOfSuffix(inputValue.ext)
      ELSE ObjectType

M_TypeForSpecifier_NoneIsObject(value) ==
    IF value.base \in TypeSpecifiers \ {"none"} THEN value.base ELSE ObjectType

\* The new inputType after a -x argument (lines 359-371); NoType is None.
TypeForSpecifier(value) ==
    IF value.base \in TypeSpecifiers
      THEN (IF value.base = "none" THEN NoType ELSE value.base)
      ELSE ObjectType

M_InputDropped_Never(inputValue) == FALSE

\* The test that drops a positional input (line 345).
InputDropped(inputValue) == ~PathExists(inputValue)

\* The scan of the argument list (lines 320-371): the classified inputs
\* and the warnings, in order.
RECURSIVE ScanArgs(_, _, _, _, _)
ScanArgs(as, i, inputType, inputs, warns) ==
    IF i > Len(as) THEN [inputs |-> inputs, warnings |-> warns]
    ELSE LET a == as[i] IN
      IF a.opt = "<input>" THEN
        LET klass == IF inputType = NoType THEN ClassifyBySuffix(a.value)
                     ELSE inputType
        IN IF InputDropped(a.value)
             THEN ScanArgs(as, i + 1, inputType, inputs,
                           Append(warns, Warning("No such file or directory", a.value)))
             ELSE ScanArgs(as, i + 1, inputType,
                           Append(inputs, [klass |-> klass, input |-> a]), warns)
      ELSE IF IsLinkerInput(a.opt) THEN
        ScanArgs(as, i + 1, inputType,
                 Append(inputs, [klass |-> ObjectType, input |-> a]), warns)
      ELSE IF a.opt = "-x" THEN
        IF a.value.base \in TypeSpecifiers
          THEN ScanArgs(as, i + 1, TypeForSpecifier(a.value), inputs, warns)
          ELSE ScanArgs(as, i + 1, TypeForSpecifier(a.value), inputs,
                        Append(warns, Warning("language not recognized", a.value)))
      ELSE ScanArgs(as, i + 1, inputType, inputs, warns)

\* The mode option that selects the final phase (lines 378-393), or None.
FinalPhaseOpt(as) ==
    IF GetLastArg(as, "-E") # NoArg THEN GetLastArg(as, "-E")
    ELSE IF GetLastArg(as, "-fsyntax-only") # NoArg THEN GetLastArg(as, "-fsyntax-only")
    ELSE IF GetLastArg(as, "-S") # NoArg THEN GetLastArg(as, "-S")
    ELSE IF GetLastArg(as, "-c") # NoArg THEN GetLastArg(as, "-c")
    ELSE NoArg

M_FinalPhase_DefaultAssemble(as) ==
    IF GetLastArg(as, "-E") # NoArg THEN eOrderPreprocess
    ELSE IF GetLastArg(as, "-fsyntax-only") # NoArg THEN eOrderCompile
    ELSE IF GetLastArg(as, "-S") # NoArg THEN eOrderCompile
    ELSE eOrderAssemble

M_FinalPhase_LastFlagWins(as) ==
    LET occ == {i \in 1..Len(as) : as[i].opt \in {"-E", "-fsyntax-only", "-S", "-c"}}
        last == CHOOSE i \in occ : \A j \in occ : j <= i
    IN IF occ = {} THEN eOrderPostAssemble
       ELSE IF as[last].opt = "-E" THEN eOrderPreprocess
       ELSE IF as[last].opt = "-c" THEN eOrderAssemble
       ELSE eOrderCompile

\* The final phase (lines 378-393).
FinalPhase(as) ==
    IF GetLastArg(as, "-E") # NoArg THEN eOrderPreprocess
    ELSE IF GetLastArg(as, "-fsyntax-only") # NoArg THEN eOrderCompile
    ELSE IF GetLastArg(as, "-S") # NoArg THEN eOrderCompile
    ELSE IF GetLastArg(as, "-c") # NoArg THEN eOrderAssemble
    ELSE eOrderPostAssemble

\* The errors raised before any action is built (lines 398-409).
ModeError(as, inputs) ==
    IF GetLastArg(as, "-combine") # NoArg
      THEN "NotImplementedError: -combine is not yet supported"
    ELSE IF GetLastArg(as, "-Z") # NoArg
      THEN "InvalidArguments: unsupported use of internal gcc option"
    ELSE IF inputs = << >> /\ GetLastArg(as, "-###") = NoArg
      THEN NoInputFiles
    ELSE NoError

\* The phase sequence of an input of type klass (lines 424-437).
PhaseSequence(klass) ==
    (IF TypePreprocess(klass) # NoType THEN <<PreprocessPhase>> ELSE << >>)
    \o (IF klass = ObjectType THEN <<LinkPhase>>
        ELSE IF TypeOnlyAssemble(klass) THEN <<AssemblePhase, LinkPhase>>
        ELSE IF TypeOnlyPrecompile(klass) THEN <<PrecompilePhase>>
        ELSE <<CompilePhase, AssemblePhase, LinkPhase>>)

M_CompileOutput_Object(hasSyntaxOnly) ==
    IF hasSyntaxOnly # NoArg THEN NothingType ELSE ObjectType

\* The output type of the Compile action (lines 467-470).
CompileOutput(hasSyntaxOnly) ==
    IF hasSyntaxOnly # NoArg THEN NothingType ELSE AsmTypeNoPP

M_ChainStops_IgnoreFinal(currentType, transition, finalPhase) ==
    currentType = NothingType

\* The loop test of the chain (lines 453-454).
ChainStops(currentType, transition, finalPhase) ==
    currentType = NothingType \/ transition.order > finalPhase

\* The chain of one input (lines 450-484).  current is the index of the
\* action built so far; the result's current is 0 for None, and linked is
\* the action handed to the linker-input list, or 0.
RECURSIVE FoldChain(_, _, _, _, _, _, _)
FoldChain(sequence, j, current, heap, klass, hasSyntaxOnly, finalPhase) ==
    IF j > Len(sequence)
      THEN [nodes |-> heap, current |-> current, linked |-> 0, error |-> NoError]
    ELSE LET transition == sequence[j]
             Next1(type) ==
               FoldChain(sequence, j + 1, Len(heap) + 1,
                         Append(heap, JobAction(transition, <<current>>, type)),
                         klass, hasSyntaxOnly, finalPhase)
      IN IF ChainStops(heap[current].type, transition, finalPhase)
           THEN [nodes |-> heap, current |-> current, linked |-> 0, error |-> NoError]
         ELSE IF IsInstance(transition, "PreprocessPhase")
           THEN Next1(TypePreprocess(klass))
         ELSE IF IsInstance(transition, "PrecompilePhase")
           THEN Next1(PCHType)
         ELSE IF IsInstance(transition, "CompilePhase")
           THEN Next1(CompileOutput(hasSyntaxOnly))
         ELSE IF IsInstance(transition, "AssemblePhase")
           THEN Next1(ObjectType)
         ELSE IF transition = LinkPhase
           THEN [nodes |-> heap, current |-> 0, linked |-> current, error |-> NoError]
         ELSE [nodes |-> heap, current |-> current, linked |-> 0,
               error |-> "RuntimeError: Unrecognized transition"]

M_InputUnused_Never(sequence, finalPhase) == FALSE

\* The test that an input is unused (line 439).
InputUnused(sequence, finalPhase) == sequence[1].order > finalPhase

M_AddAction_Prepend(actions, current) == <<current>> \o actions

\* actions.append(current) (line 488)
AddAction(actions, current) == Append(actions, current)

\* The loop over the classified inputs (lines 415-488).
RECURSIVE BuildChains(_, _, _, _, _, _, _)
BuildChains(as, inputs, i, heap, actions, linkerInputs, warns) ==
    IF i > Len(inputs)
      THEN [nodes |-> heap, actions |-> actions, linkerInputs |-> linkerInputs,
            warnings |-> warns, error |-> NoError]
    ELSE LET klass == inputs[i].klass
             input == inputs[i].input
             sequence == PhaseSequence(klass)
             finalPhase == FinalPhase(as)
      IN IF InputUnused(sequence, finalPhase) THEN
           IF FinalPhaseOpt(as) = NoArg
             THEN [nodes |-> heap, actions |-> actions,
                   linkerInputs |-> linkerInputs, warnings |-> warns,
                   error |-> "AssertionError"]
             ELSE BuildChains(as, inputs, i + 1, heap, actions, linkerInputs,
                              Append(warns, Warning("input file unused", input.value)))
         ELSE
           LET Chained(r) ==
                 IF r.error # NoError
                   THEN [nodes |-> r.nodes, actions |-> actions,
                         linkerInputs |-> linkerInputs, warnings |-> warns,
                         error |-> r.error]
                 ELSE IF r.current # 0 /\ IsInstance(r.nodes[r.current], "InputAction")
                   THEN [nodes |-> r.nodes, actions |-> actions,
                         linkerInputs |-> linkerInputs, warnings |-> warns,
                         error |-> "AssertionError"]
                 ELSE BuildChains(as, inputs, i + 1, r.nodes,
                                  IF r.current # 0 THEN AddAction(actions, r.current)
                                  ELSE actions,
                                  IF r.linked # 0 THEN Append(linkerInputs, r.linked)
                                  ELSE linkerInputs,
                                  warns)
           IN Chained(FoldChain(sequence, 1, Len(heap) + 1,
                                Append(heap, InputAction(input, klass)), klass,
                                GetLastArg(as, "-fsyntax-only"), finalPhase))

M_AppendLink_Always(r) ==
    IF r.error = NoError
      THEN [r EXCEPT !.nodes = Append(r.nodes,
                                      JobAction(LinkPhase, r.linkerInputs, ImageType)),
                     !.actions = Append(r.actions, Len(r.nodes) + 1)]
      ELSE r

\* The aggregated Link action (lines 490-493).
AppendLink(r) ==
    IF r.error = NoError /\ r.linkerInputs # << >>
      THEN [r EXCEPT !.nodes = Append(r.nodes,
                                      JobAction(LinkPhase, r.linkerInputs, ImageType)),
                     !.actions = Append(r.actions, Len(r.nodes) + 1)]
      ELSE r

\* buildNormalPipeline(args): the action heap, the top-level actions, the
\* warnings and the exception raised, if any.
BuildNormalPipeline(as) ==
    LET Returned(r) ==
          [nodes |-> r.nodes,
           actions |-> IF r.error = NoError THEN r.actions ELSE << >>,
           warnings |-> r.warnings, error |-> r.error]
        Checked(scan, err) ==
          IF err # NoError
            THEN [nodes |-> << >>, actions |-> << >>,
                  warnings |-> scan.warnings, error |-> err]
            ELSE Returned(AppendLink(BuildChains(as, scan.inputs, 1, << >>,
                                                 << >>, << >>, scan.warnings)))
        Scanned(scan) == Checked(scan, ModeError(as, scan.inputs))
    IN Scanned(ScanArgs(as, 1, NoType, << >>, << >>))

----------------------------------------------------------------------------
(* Driver.buildPipeline (the driver driver).                               *)

\* The -arch arguments in order, or the host architecture (lines 500-512).
HostArchName == "i386"

ArchArgs(as) ==
    LET given == SelectSeq(as, LAMBDA a : a.opt = "-arch")
    IN IF given = << >> THEN <<MakeSeparateArg(Word(HostArchName), "-arch")>>
       ELSE given

\* hasDashM (lines 504-508): the last argument that is not -arch and whose
\* option name starts with -M.
HasDashM(as) ==
    LET occ == {i \in 1..Len(as) : as[i].opt # "-arch" /\ StartsWithDashM(as[i].opt)}
    IN IF occ = {} THEN NoArg
       ELSE as[CHOOSE i \in occ : \A j \in occ : j <= i]

M_MultiArchError_OnlyDashM(as, archs) ==
    IF Len(archs) > 1 /\ HasDashM(as) # NoArg
      THEN "InvalidArguments: Cannot use -M options with multiple arch flags."
      ELSE NoError

\* The options rejected with several architectures (lines 522-526).
MultiArchError(as, archs) ==
    IF Len(archs) > 1 THEN
      IF HasDashM(as) # NoArg
        THEN "InvalidArguments: Cannot use -M options with multiple arch flags."
      ELSE IF HasSaveTemps(as) # NoArg
        THEN "InvalidArguments: Cannot use -save-temps with multiple arch flags."
      ELSE NoError
    ELSE NoError

M_CannotLipo_AllowAssembly(archs, type) ==
    Len(archs) > 1 /\ type \notin {NothingType, ObjectType, ImageType, AsmTypeNoPP}

\* The test that an output cannot be combined by lipo (lines 542-543).
CannotLipo(archs, type) ==
    Len(archs) > 1 /\ type \notin {NothingType, ObjectType, ImageType}

M_NoLipoNeeded_Always(inputs, type) == TRUE

M_NoLipoNeeded_SingleOnly(inputs, type) == Len(inputs) = 1

\* The bind nodes of p are emitted as they are (line 552).
NoLipoNeeded(inputs, type) == Len(inputs) = 1 \/ type = NothingType

\* The loop over the top-level actions (lines 529-557).
RECURSIVE MultiplyArchs(_, _, _, _, _)
MultiplyArchs(actions, k, archs, heap, finalActions) ==
    IF k > Len(actions)
      THEN [nodes |-> heap, actions |-> finalActions, error |-> NoError]
    ELSE LET p == actions[k]
             type == heap[p].type
             binds == [a \in 1..Len(archs) |-> BindArchAction(p, type, archs[a])]
             heap1 == heap \o binds
             inputs == [a \in 1..Len(archs) |-> Len(heap) + a]
      IN IF CannotLipo(archs, type)
           THEN [nodes |-> heap, actions |-> finalActions,
                 error |-> "InvalidArguments: Cannot use output with multiple arch flags."]
         ELSE IF NoLipoNeeded(inputs, type)
           THEN MultiplyArchs(actions, k + 1, archs, heap1, finalActions \o inputs)
         ELSE MultiplyArchs(actions, k + 1, archs,
                            Append(heap1, JobAction(LipoPhase, inputs, type)),
                            Append(finalActions, Len(heap1) + 1))

\* buildPipeline(args)
BuildPipeline(as) ==
    LET Returned(normal, r) ==
          [nodes |-> r.nodes,
           actions |-> IF r.error = NoError THEN r.actions ELSE << >>,
           warnings |-> normal.warnings, error |-> r.error]
        Checked(archs, normal, err) ==
          IF normal.error # NoError THEN normal
          ELSE IF err # NoError
            THEN [nodes |-> normal.nodes, actions |-> << >>,
                  warnings |-> normal.warnings, error |-> err]
          ELSE Returned(normal, MultiplyArchs(normal.actions, 1, archs,
                                              normal.nodes, << >>))
        Built1(archs) ==
          Checked(archs, BuildNormalPipeline(as), MultiArchError(as, archs))
    IN Built1(ArchArgs(as))

----------------------------------------------------------------------------
(* Tool chains and tools.                                                  *)

HostToolChain == "<host>"

\* hostInfo.getToolChainForArch(archName)
ToolChainForArch(archName) == archName

NoTcArgs == [tc |-> "<none>", arch |-> NoArg]

\* tc.translateArgs(args, arch): the view of the arguments that the tool
\* chain tc forwards for arch.
TranslateArgs(tc, arch) == [tc |-> tc, arch |-> arch]

\* tc.selectTool(phase): one tool per phase kind.
SelectTool(action) == action.phase.class

HasIntegratedCPP(tool) == tool \in {"CompilePhase", "PrecompilePhase"}

AcceptsPipedInput(tool) == tool \in {"PreprocessPhase", "CompilePhase", "AssemblePhase"}

CanPipeOutput(tool) == tool \in {"PreprocessPhase", "CompilePhase"}

----------------------------------------------------------------------------
(* Jobs.                                                                   *)

InputInfo(source, type, baseInput) ==
    [source |-> source, type |-> type, baseInput |-> baseInput]

PipedJobRef(k) == [opt |-> "<PipedJob>", value |-> NoValue, index |-> k]

IsPipedJobRef(source) == source.opt = "<PipedJob>"

\* The Command that tool.constructJob appends for an action.
Command(action, phase, arch, inputs, output, type, tcArgs, atTop) ==
    [class |-> "Command", action |-> action, phase |-> phase, arch |-> arch,
     inputs |-> inputs, output |-> output, type |-> type, tcArgs |-> tcArgs,
     atTopLevel |-> atTop, commands |-> << >>]

PipedJob(commands) ==
    [class |-> "PipedJob", action |-> 0, phase |-> "", arch |-> NoArg,
     inputs |-> << >>, output |-> NoArg, type |-> NoType, tcArgs |-> NoTcArgs,
     atTopLevel |-> FALSE, commands |-> commands]

\* jobList.addJob(cmd), where jobList is the top-level list (0) or the
\* PipedJob at position jobList of it.
AddJob(js, jobList, cmd) ==
    IF jobList = 0 THEN Append(js, cmd)
    ELSE [js EXCEPT ![jobList].commands = Append(@, cmd)]

----------------------------------------------------------------------------
(* Driver.bindPhases.                                                      *)

M_FinalOutput_First(as) ==
    LET occ == {i \in 1..Len(as) : as[i].opt = "-o"}
    IN IF occ = {} THEN NoArg
       ELSE as[CHOOSE i \in occ : \A j \in occ : i <= j]

\* finalOutput (line 576)
FinalOutput(as) == GetLastArg(as, "-o")

M_HasPipe_Honoured(as) == GetLastArg(as, "-pipe")

\* hasPipe after lines 581-588: -pipe is claimed and then overridden.
HasPipe(as) == NoArg

M_UseIntegratedCPP_Never(as, heap, phase) == FALSE

M_UseIntegratedCPP_IgnoreSaveTemps(as, heap, phase) ==
    /\ GetLastArg(as, "-no-integrated-cpp") = NoArg
    /\ GetLastArg(as, "-traditional-cpp") = NoArg
    /\ HasIntegratedCPP(SelectTool(heap[phase]))
    /\ Len(heap[phase].inputs) = 1
    /\ IsInstance(heap[heap[phase].inputs[1]].phase, "PreprocessPhase")

\* The test for an integrated preprocessor (lines 636-641).
UseIntegratedCPP(as, heap, phase) ==
    /\ GetLastArg(as, "-no-integrated-cpp") = NoArg
    /\ GetLastArg(as, "-traditional-cpp") = NoArg
    /\ HasSaveTemps(as) = NoArg
    /\ HasIntegratedCPP(SelectTool(heap[phase]))
    /\ Len(heap[phase].inputs) = 1
    /\ IsInstance(heap[heap[phase].inputs[1]].phase, "PreprocessPhase")

\* inputList (lines 635-643)
InputList(as, heap, phase) ==
    IF UseIntegratedCPP(as, heap, phase)
      THEN heap[heap[phase].inputs[1]].inputs
      ELSE heap[phase].inputs

M_OutputToPipe_TestsPhase(as, heap, phase, canAcceptPipe, atTopLevel) ==
    /\ canAcceptPipe /\ CanPipeOutput(SelectTool(heap[phase]))
    /\ \/ /\ atTopLevel
          /\ IsInstance(heap[phase].phase, "PreprocessPhase")
          /\ FinalOutput(as) = NoArg
       \/ HasPipe(as) # NoArg

\* outputToPipe (lines 651-663).  The second test of line 659 applies
\* isinstance to the action node itself.
OutputToPipe(as, heap, phase, canAcceptPipe, atTopLevel) ==
    /\ canAcceptPipe /\ CanPipeOutput(SelectTool(heap[phase]))
    /\ \/ /\ atTopLevel
          /\ IsInstance(heap[phase], "PreprocessPhase")
          /\ FinalOutput(as) = NoArg
       \/ HasPipe(as) # NoArg

\* The derived output location (lines 685-691).
NamedOutput(heap, phase, baseInput) ==
    IF heap[phase].type = ImageType THEN Path("", "a", "out")
    ELSE WithSuffix(baseInput.value, TypeTempSuffix(heap[phase].type))

\* The output uses the user's -o (line 694).
UseFinalOutput(as, atTopLevel) == atTopLevel /\ FinalOutput(as) # NoArg

M_UseNamedOutput_TopOnly(as, atTopLevel) == atTopLevel

\* The output is a named file in the working directory (line 697).
UseNamedOutput(as, atTopLevel) == atTopLevel \/ HasSaveTemps(as) # NoArg

\* The output argument of a command that writes a file (lines 693-704);
\* tmp is the number of temp files reserved so far.
FileOutput(as, heap, phase, atTopLevel, baseInput, tmp) ==
    IF UseFinalOutput(as, atTopLevel)
      THEN [output |-> FinalOutput(as), tmp |-> tmp]
    ELSE IF UseNamedOutput(as, atTopLevel)
      THEN [output |-> MakeSeparateArg(Basename(NamedOutput(heap, phase, baseInput)), "-o"),
            tmp |-> tmp]
    ELSE [output |-> MakeSeparateArg(MkStemp(tmp + 1, TypeTempSuffix(heap[phase].type)), "-o"),
          tmp |-> tmp + 1]

\* The arch argument handed down by a BindArchAction (lines 618-623).
BoundArch(action) == action.arch

M_BindArchTcArgs_Inherit(tcArgs) == tcArgs

\* The tcArgs handed down by a BindArchAction (line 623): None, so that
\* the arguments are translated again below it.
BindArchTcArgs(tcArgs) == NoTcArgs

\* createJobs (lines 613-709).  st holds the job list and the number of
\* temp files reserved; the result adds the InputInfo returned.
RECURSIVE CreateJobs(_, _, _, _, _, _, _, _, _)
RECURSIVE CreateJobsList(_, _, _, _, _, _, _, _, _, _)

CreateJobsList(as, heap, tc, inputList, i, canAcceptPipe, arch, tcArgs, st, infos) ==
    IF i > Len(inputList) THEN [jobs |-> st.jobs, tmp |-> st.tmp, infos |-> infos]
    ELSE LET r == CreateJobs(as, heap, tc, inputList[i], canAcceptPipe, FALSE,
                             arch, tcArgs, st)
         \* The jobs of one input are complete before the next input is bound.
         IN CASE r.tmp >= st.tmp ->
              CreateJobsList(as, heap, tc, inputList, i + 1, canAcceptPipe, arch,
                             tcArgs, [jobs |-> r.jobs, tmp |-> r.tmp],
                             Append(infos, r.info))

CreateJobs(as, heap, tc, phase, canAcceptPipe0, atTopLevel, arch, tcArgs0, st) ==
    IF IsInstance(heap[phase], "InputAction")
      THEN [jobs |-> st.jobs, tmp |-> st.tmp,
            info |-> InputInfo(heap[phase].filename, heap[phase].type,
                               heap[phase].filename)]
    ELSE IF IsInstance(heap[phase], "BindArchAction")
      THEN CreateJobs(as, heap, ToolChainForArch(heap[phase].arch.value.base),
                      heap[phase].inputs[1], canAcceptPipe0, atTopLevel,
                      BoundArch(heap[phase]), BindArchTcArgs(tcArgs0), st)
    ELSE
      LET tcArgs == IF tcArgs0 = NoTcArgs THEN TranslateArgs(tc, arch) ELSE tcArgs0
          tool == SelectTool(heap[phase])
          inputList == InputList(as, heap, phase)
          canAcceptPipe == Len(inputList) = 1 /\ AcceptsPipedInput(tool)
          sub == CreateJobsList(as, heap, tc, inputList, 1, canAcceptPipe, arch,
                                tcArgs, st, << >>)
          inputs == sub.infos
          outputToPipe == OutputToPipe(as, heap, phase, canAcceptPipe, atTopLevel)
          jobList0 == IF canAcceptPipe /\ IsPipedJobRef(inputs[1].source)
                      THEN inputs[1].source.index ELSE 0
          baseInput == inputs[1].baseInput
          newPipe == heap[phase].type # NothingType /\ outputToPipe /\ jobList0 = 0
          jobs1 == IF newPipe THEN Append(sub.jobs, PipedJob(<< >>)) ELSE sub.jobs
          jobList == IF newPipe THEN Len(jobs1) ELSE jobList0
          out == IF heap[phase].type = NothingType
                   THEN [output |-> NoArg, tmp |-> sub.tmp]
                 ELSE IF outputToPipe
                   THEN [output |-> PipedJobRef(jobList), tmp |-> sub.tmp]
                 ELSE FileOutput(as, heap, phase, atTopLevel, baseInput, sub.tmp)
      \* The inputs are bound (line 648) before the output is chosen.
      IN CASE Len(inputs) = Len(inputList) ->
         [jobs |-> AddJob(jobs1, jobList,
                          Command(phase, heap[phase].phase.name, arch, inputs,
                                  out.output, heap[phase].type, tcArgs, atTopLevel)),
          tmp |-> out.tmp,
          info |-> InputInfo(out.output, heap[phase].type, baseInput)]

M_MultipleOutputs_OffByOne(as, heap, actions) ==
    /\ FinalOutput(as) # NoArg
    /\ Cardinality({k \in 1..Len(actions) : heap[actions[k]].type # NothingType}) > 2

M_MultipleOutputs_CountAll(as, heap, actions) ==
    /\ FinalOutput(as) # NoArg
    /\ Len(actions) > 1

\* The test of line 713: -o with more than one output.
MultipleOutputs(as, heap, actions) ==
    /\ FinalOutput(as) # NoArg
    /\ Cardinality({k \in 1..Len(actions) : heap[actions[k]].type # NothingType}) > 1

\* The loop of lines 716-718.
RECURSIVE BindAll(_, _, _, _, _)
BindAll(as, heap, actions, k, st) ==
    IF k > Len(actions) THEN st
    ELSE LET r == CreateJobs(as, heap, HostToolChain, actions[k], TRUE, TRUE,
                             NoArg, NoTcArgs, st)
         \* The jobs of one action are complete before the next action is bound.
         IN CASE r.tmp >= st.tmp ->
              BindAll(as, heap, actions, k + 1, [jobs |-> r.jobs, tmp |-> r.tmp])

\* bindPhases(phases, args)
BindPhases(as, heap, actions) ==
    IF MultipleOutputs(as, heap, actions)
      THEN [jobs |-> << >>, error |-> MultipleFilesError]
      ELSE [jobs |-> BindAll(as, heap, actions, 1, [jobs |-> << >>, tmp |-> 0]).jobs,
            error |-> NoError]

----------------------------------------------------------------------------
(* Driver.printPhases.                                                     *)

NoIndex == -1

PhaseLine(index, name, arch, inputs, type) ==
    [index |-> index, name |-> name, arch |-> arch, inputs |-> inputs,
     type |-> type]

\* printPhase (lines 226-247).  st.steps maps a node to its number (or
\* NoIndex), st.count is len(steps), st.lines the lines printed; ret is the
\* value returned, NoIndex for None.
RECURSIVE PrintPhase(_, _, _, _)
RECURSIVE PrintPhaseInputs(_, _, _, _, _, _)

PrintPhaseInputs(heap, inputs, i, arch, st, rets) ==
    IF i > Len(inputs) THEN [st |-> st, rets |-> rets]
    ELSE LET r == PrintPhase(heap, inputs[i], arch, st)
         \* The lines of one input are printed before the next input is visited.
         IN CASE r.st.count >= st.count ->
              PrintPhaseInputs(heap, inputs, i + 1, arch, r.st, Append(rets, r.ret))

PrintPhase(heap, p, arch, st) ==
    IF st.steps[p] # NoIndex THEN [st |-> st, ret |-> st.steps[p]]
    ELSE IF IsInstance(heap[p], "BindArchAction") THEN
      LET r == PrintPhaseInputs(heap, heap[p].inputs, 1, heap[p].arch, st, << >>)
      IN CASE Len(r.rets) = Len(heap[p].inputs) ->
         [st |-> [r.st EXCEPT !.steps[p] = r.st.count, !.count = @ + 1],
          ret |-> NoIndex]
    ELSE IF IsInstance(heap[p], "InputAction") THEN
      [st |-> [steps |-> [st.steps EXCEPT ![p] = st.count],
               count |-> st.count + 1,
               lines |-> Append(st.lines,
                                PhaseLine(st.count, "input", arch, << >>, heap[p].type))],
       ret |-> st.count]
    ELSE
      LET r == PrintPhaseInputs(heap, heap[p].inputs, 1, arch, st, << >>)
      \* The inputs are printed (lines 241-242) before the line of p.
      IN CASE Len(r.rets) = Len(heap[p].inputs) ->
         [st |-> [steps |-> [r.st.steps EXCEPT ![p] = r.st.count],
                  count |-> r.st.count + 1,
                  lines |-> Append(r.st.lines,
                                   PhaseLine(r.st.count, heap[p].phase.name, arch,
                                             r.rets, heap[p].type))],
          ret |-> r.st.count]

\* The loop of lines 248-250.
RECURSIVE PrintPhasesFrom(_, _, _, _)
PrintPhasesFrom(heap, actions, k, st) ==
    IF k > Len(actions) THEN st
    ELSE LET r == PrintPhase(heap, actions[k], NoArg, st)
         IN CASE r.st.count >= st.count ->
              PrintPhasesFrom(heap, actions, k + 1, r.st)

PrintPhases(heap, actions) ==
    PrintPhasesFrom(heap, actions, 1,
                    [steps |-> [p \in 1..Len(heap) |-> NoIndex], count |-> 0,
                     lines |-> << >>]).lines

----------------------------------------------------------------------------
(* Driver.run.                                                             *)

NotExited == -1

\* Exit status of an uncaught exception.
ErrorStatus == 1

CccFlagNames == {"print-options", "print-phases", "cxx", "clang", "echo", "fallback"}

CccValueNames == {"host-bits", "host-machine", "host-system", "host-release"}

\* The loop over the leading -ccc- options (lines 102-127): the options
\* seen, the rest of argv and the exception raised, if any.
RECURSIVE CccLoop(_, _)
CccLoop(av, seen) ==
    IF av = << >> \/ ~IsCccOption(Head(av))
      THEN [argv |-> av, opts |-> seen, error |-> NoError]
    ELSE LET opt == Head(av).value.base
             rest == Tail(av)
         IN IF opt \in CccFlagNames THEN CccLoop(rest, seen \cup {opt})
            ELSE IF opt \in CccValueNames THEN
              IF rest = << >>
                THEN [argv |-> rest, opts |-> seen, error |-> "IndexError"]
                ELSE CccLoop(Tail(rest), seen \cup {opt})
            ELSE [argv |-> rest, opts |-> seen,
                  error |-> "InvalidArguments: invalid option"]

ImmediateOptions == {"-dumpmachine", "-dumpspecs", "-dumpversion",
                     "-print-file-name=", "-print-multi-directory",
                     "-print-multi-lib", "-print-prog-name=",
                     "-print-libgcc-file-name", "-print-search-dirs"}

\* handleImmediateOptions exits with status 1 (lines 268-311).
HasImmediateOption(as) == \E o \in ImmediateOptions : GetLastArg(as, o) # NoArg

M_HashHashHashLines_OnlyFirst(js, k) ==
    IF js = << >> THEN << >> ELSE <<js[1]>>

\* The lines printed for -### (lines 180-188): one per command.
RECURSIVE HashHashHashLines(_, _)
HashHashHashLines(js, k) ==
    IF k > Len(js) THEN << >>
    ELSE (IF js[k].class = "Command" THEN <<js[k]>> ELSE js[k].commands)
         \o HashHashHashLines(js, k + 1)

\* An exception leaves run.
Raise(msg) ==
    /\ error' = msg
    /\ exitStatus' = ErrorStatus

\* sys.exit(status), or the return of run with status 0.
Exit(status) ==
    /\ error' = error
    /\ exitStatus' = status

Continue == UNCHANGED <<error, exitStatus>>

Running == exitStatus = NotExited

\* Lines 102-149: the -ccc- options, the parse, -ccc-print-options and the
\* immediate options.
ParseOptions ==
    /\ Running /\ pc = "start"
    /\ pc' = "parsed"
    /\ LET r == CccLoop(argv, {}) IN
         /\ cccOpts' = r.opts
         /\ IF r.error # NoError
              THEN Raise(r.error) /\ args' = args
            ELSE /\ args' = ParseArgs(r.argv)
                 /\ IF "print-options" \in r.opts THEN Exit(0)
                    ELSE IF HasImmediateOption(ParseArgs(r.argv)) THEN Exit(1)
                    ELSE Continue
    /\ UNCHANGED <<argv, useDriverDriver, nodes, phases, jobs, warnings,
                   printed, spawned, running, statuses>>
    /\ UNCHANGED mtrVars

\* Lines 151-154.
BuildPhases ==
    /\ Running /\ pc = "parsed"
    /\ pc' = "built"
    /\ \E r \in {IF useDriverDriver THEN BuildPipeline(args)
                   ELSE BuildNormalPipeline(args)} :
          /\ warnings' = r.warnings
          /\ nodes' = r.nodes
          /\ phases' = r.actions
          /\ IF r.error # NoError THEN Raise(r.error)
             ELSE Continue
    /\ UNCHANGED <<argv, useDriverDriver, cccOpts, args, jobs, printed,
                   spawned, running, statuses>>
    /\ UNCHANGED mtrVars

\* Lines 156-158.
PrintPhasesAndExit ==
    /\ Running /\ pc = "built"
    /\ pc' = "phases-printed"
    /\ "print-phases" \in cccOpts
    /\ printed' = PrintPhases(nodes, phases)
    /\ Exit(0)
    /\ UNCHANGED <<argv, useDriverDriver, cccOpts, args, nodes, phases, jobs,
                   warnings, spawned, running, statuses>>
    /\ UNCHANGED mtrVars

M_Bind_ErrorDoesNotAbort ==
    /\ Running /\ pc = "built"
    /\ pc' = "bound"
    /\ "print-phases" \notin cccOpts
    /\ jobs' = BindAll(args, nodes, phases, 1, [jobs |-> << >>, tmp |-> 0]).jobs
    /\ error' = BindPhases(args, nodes, phases).error
    /\ exitStatus' = exitStatus
    /\ UNCHANGED <<argv, useDriverDriver, cccOpts, args, nodes, phases,
                   warnings, printed, spawned, running, statuses>>
    /\ UNCHANGED mtrVars

\* Line 163.
Bind ==
    /\ Running /\ pc = "built"
    /\ pc' = "bound"
    /\ "print-phases" \notin cccOpts
    /\ LET r == BindPhases(args, nodes, phases)
       IN /\ jobs' = r.jobs
          /\ IF r.error # NoError THEN Raise(r.error)
             ELSE Continue
    /\ UNCHANGED <<argv, useDriverDriver, cccOpts, args, nodes, phases,
                   warnings, printed, spawned, running, statuses>>
    /\ UNCHANGED mtrVars

\* Lines 176-189.
PrintJobs ==
    /\ Running /\ pc = "bound"
    /\ pc' = "jobs-printed"
    /\ GetLastArg(args, "-###") # NoArg
    /\ printed' = HashHashHashLines(jobs, 1)
    /\ Exit(0)
    /\ UNCHANGED <<argv, useDriverDriver, cccOpts, args, nodes, phases, jobs,
                   warnings, spawned, running, statuses>>
    /\ UNCHANGED mtrVars

\* The job the loop of line 191 is at.
NextJob == Len(spawned) + 1

\* Lines 191-196 and 199-202: the next job is spawned, or the loop ends.
Spawn ==
    /\ Running /\ pc \in {"bound", "exec"}
    /\ pc' = "exec"
    /\ GetLastArg(args, "-###") = NoArg
    /\ running = 0
    /\ IF NextJob > Len(jobs)
         THEN Exit(0) /\ UNCHANGED <<spawned, running>>
       ELSE IF jobs[NextJob].class = "Command"
         THEN /\ running' = NextJob
              /\ spawned' = Append(spawned, NextJob)
              /\ Continue
       ELSE Raise("NotImplementedError: Piped jobs aren't implemented yet.")
            /\ UNCHANGED <<spawned, running>>
    /\ UNCHANGED <<argv, useDriverDriver, cccOpts, args, nodes, phases, jobs,
                   warnings, printed, statuses>>
    /\ UNCHANGED mtrVars

M_StopsOn_OnlyOne(res) == res = 1

\* The driver's reaction to the exit status res (lines 197-198).
StopsOn(res) == res # 0

\* Lines 196-198: the spawned process exits with status res.
Wait ==
    /\ Running /\ pc = "exec"
    /\ pc' = "exec"
    /\ running # 0
    /\ \E res \in 0..MaxStatus :
         /\ statuses' = Append(statuses, res)
         /\ running' = 0
         /\ IF StopsOn(res) THEN Exit(res)
            ELSE Continue
    /\ UNCHANGED <<argv, useDriverDriver, cccOpts, args, nodes, phases, jobs,
                   warnings, printed, spawned>>
    /\ UNCHANGED mtrVars

Next ==
    \/ ParseOptions
    \/ BuildPhases
    \/ PrintPhasesAndExit
    \/ Bind
    \/ PrintJobs
    \/ Spawn
    \/ Wait

----------------------------------------------------------------------------
(* utils/test/MultiTestRunner.py: TestProvider, Tester and the part of     *)
(* main that starts and joins the Tester threads.                          *)

NoItem == -1

NoResult == [path |-> NoItem, code |-> "<None>", output |-> "<None>"]

NoMaxTime == "<None>"

TestCodes == {"Pass", "Fail", "XPass"}

\* TestResult(path, code, output, elapsed); the path of test i is i.
TestResult(path, code, output) == [path |-> path, code |-> code, output |-> output]

Testers == 1..numThreads

\* The Tester threads that have left run: by the break of line 148, or by
\* an exception that run does not catch.
Ended(t) == tpc[t] \in {"exit", "died"}

\* The state in which the driver specifications leave the test runner.
NoTestRun ==
    /\ numThreads = 0
    /\ tests = 0
    /\ opts = [maxTime |-> NoMaxTime, debugDoNotTest |-> FALSE]
    /\ testIndex = 0
    /\ lock = 0
    /\ results = << >>
    /\ late = FALSE
    /\ tpc = << >>
    /\ item = << >>
    /\ handed = << >>
    /\ written = << >>
    /\ joined = FALSE

\* TestProvider.__init__ (lines 112-119) and main (lines 294-300).
InitMTR ==
    /\ numThreads \in 1..MaxThreads
    /\ tests \in 0..MaxTests
    /\ opts \in [maxTime : {NoMaxTime, "set"}, debugDoNotTest : BOOLEAN]
    /\ testIndex = 0
    /\ lock = 0
    /\ results = [i \in 1..tests |-> NoResult]
    /\ late = FALSE
    /\ tpc = [t \in 1..numThreads |-> "get"]
    /\ item = [t \in 1..numThreads |-> NoItem]
    /\ handed = << >>
    /\ written = << >>
    /\ joined = FALSE
    /\ argv = << >>
    /\ useDriverDriver = FALSE
    /\ pc = "start"
    /\ cccOpts = {}
    /\ args = << >>
    /\ nodes = << >>
    /\ phases = << >>
    /\ jobs = << >>
    /\ warnings = << >>
    /\ printed = << >>
    /\ error = NoError
    /\ spawned = << >>
    /\ running = 0
    /\ statuses = << >>
    /\ exitStatus = NotExited

\* Tester.run line 146 and TestProvider.get line 122: self.lock.acquire().
Acquire(t) ==
    /\ tpc[t] = "get"
    /\ lock = 0
    /\ lock' = t
    /\ tpc' = [tpc EXCEPT ![t] = "locked"]
    /\ UNCHANGED <<numThreads, tests, opts, testIndex, results, late, item,
                   handed, written, joined>>
    /\ UNCHANGED vars

\* TestProvider.get lines 123-133 and Tester.run lines 147-148: the body of
\* get under the lock, the release, and the break on None.  The clock may
\* have passed opts.maxTime by the time it is read.
Get(t) ==
    /\ tpc[t] = "locked"
    /\ lock = t
    /\ lock' = 0
    /\ \E now \in {late, TRUE} :
         /\ late' = now
         /\ IF opts.maxTime # NoMaxTime /\ now
              THEN /\ tpc' = [tpc EXCEPT ![t] = "exit"]
                   /\ item' = [item EXCEPT ![t] = NoItem]
                   /\ UNCHANGED <<testIndex, handed>>
            ELSE IF testIndex >= tests
              THEN /\ tpc' = [tpc EXCEPT ![t] = "exit"]
                   /\ item' = [item EXCEPT ![t] = NoItem]
                   /\ UNCHANGED <<testIndex, handed>>
            ELSE /\ item' = [item EXCEPT ![t] = testIndex]
                 /\ testIndex' = testIndex + 1
                 /\ handed' = Append(handed, [tester |-> t, index |-> testIndex])
                 /\ tpc' = [tpc EXCEPT ![t] = "runTest"]
    /\ UNCHANGED <<numThreads, tests, opts, results, written, joined>>
    /\ UNCHANGED vars

\* Tester.runTest lines 152-166.  With opts.debugDoNotTest the local
\* variable output is never assigned, and the read of it at line 173 raises
\* UnboundLocalError, which ends the thread.
RunTest(t) ==
    /\ tpc[t] = "runTest"
    /\ tpc' = [tpc EXCEPT ![t] = IF opts.debugDoNotTest THEN "died" ELSE "setResult"]
    /\ UNCHANGED <<numThreads, tests, opts, testIndex, lock, results, late, item,
                   handed, written, joined>>
    /\ UNCHANGED vars

\* Tester.runTest line 173 and TestProvider.setResult (lines 135-137), with
\* the code and the output that TestRunner.runOneTest returned.
SetResult(t) ==
    /\ tpc[t] = "setResult"
    /\ \E code \in TestCodes :
         results' = [results EXCEPT ![item[t] + 1] = TestResult(item[t], code, "output")]
    /\ written' = Append(written, [tester |-> t, index |-> item[t]])
    /\ tpc' = [tpc EXCEPT ![t] = "get"]
    /\ UNCHANGED <<numThreads, tests, opts, testIndex, lock, late, item, handed,
                   joined>>
    /\ UNCHANGED vars

\* main lines 302-303: every Tester has been joined.
Join ==
    /\ ~joined
    /\ \A t \in Testers : Ended(t)
    /\ joined' = TRUE
    /\ UNCHANGED <<numThreads, tests, opts, testIndex, lock, results, late, tpc,
                   item, handed, written>>
    /\ UNCHANGED vars

NextMTR ==
    \/ \E t \in Testers : Acquire(t)
    \/ \E t \in Testers : Get(t)
    \/ \E t \in Testers : RunTest(t)
    \/ \E t \in Testers : SetResult(t)
    \/ Join

SpecMTR == InitMTR /\ [][NextMTR]_<<vars, mtrVars>>

----------------------------------------------------------------------------
(* The command lines of the model: every sequence of at most n of the      *)
(* tokens T, and the shorter ones also after one of the leading options.   *)

SeqsUpTo(T, n) == UNION {[1..k -> T] : k \in 0..n}

CccTok(name) == Tok("-ccc-", Word(name))

Leading == {<<CccTok("print-phases")>>, <<CccTok("bogus")>>, <<Flag("-###")>>}

CmdLines(T, n) ==
    SeqsUpTo(T, n) \cup {l \o b : l \in Leading, b \in SeqsUpTo(T, MaxLeadArgs)}

FileA == Path("", "a", "c")
FileB == Path("", "b", "c")
FileDA == Path("d", "a", "c")
FileBarO == Path("", "bar", "o")
FileH == Path("", "h", "h")
FileS == Path("", "x", "s")
FileMissing == Path("", "nofile", "c")
FileFooM == Path("", "foo", "m")

OptO(name) == Tok("-o", Word(name))
OptArch(name) == Tok("-arch", Word(name))
OptX(name) == Tok("-x", Word(name))

Tokens == {InputTok(FileA), InputTok(FileBarO), InputTok(FileH),
           InputTok(FileS), InputTok(FileMissing), Tok("-l", Word("m")),
           Flag("-c"), Flag("-S"), Flag("-E"), OptO("out"),
           Flag("-combine"), Flag("-Z")}

OutTokens == {InputTok(FileA), InputTok(FileB), InputTok(FileDA),
              Flag("-c"), Flag("-fsyntax-only"), OptO("out"), OptO("out2")}

ArchTokens == {OptArch("i386"), OptArch("x86_64"), InputTok(FileA),
               Flag("-c"), Flag("-fsyntax-only"), OptO("out")}

ErrTokens == {OptArch("i386"), OptArch("x86_64"), InputTok(FileA),
              InputTok(FileH), OptO("out"), Flag("-MD"), Flag("-save-temps"),
              Flag("-S"), Flag("-combine"), Flag("-Z")}

TempsTokens == {OptArch("i386"), OptArch("x86_64"), InputTok(FileA),
                Flag("-MD"), Flag("-save-temps"), Flag("--save-temps"),
                Flag("-c"), Flag("-combine")}

ModeTokens == {InputTok(FileA), InputTok(FileFooM), OptX("c++"), OptX("none"),
               OptX("bogus"), Flag("-E"), Flag("-fsyntax-only"), Flag("-S"),
               Flag("-c")}

PipeTokens == {InputTok(FileA), Flag("-pipe"), Flag("-E"), Flag("-c"),
               Tok("-o", WithSuffix(FileA, "s")), Flag("-save-temps"),
               Flag("--save-temps"),
               Flag("-no-integrated-cpp"), Flag("-traditional-cpp")}

InitWith(cmdLines, dd) ==
    /\ argv \in cmdLines
    /\ useDriverDriver \in dd
    /\ pc = "start"
    /\ cccOpts = {}
    /\ args = << >>
    /\ nodes = << >>
    /\ phases = << >>
    /\ jobs = << >>
    /\ warnings = << >>
    /\ printed = << >>
    /\ error = NoError
    /\ spawned = << >>
    /\ running = 0
    /\ statuses = << >>
    /\ exitStatus = NotExited
    /\ NoTestRun

Init == InitWith(CmdLines(Tokens, MaxArgs), BOOLEAN)

Spec == Init /\ [][Next]_vars

InitOut == InitWith(CmdLines(OutTokens, MaxOutArgs), BOOLEAN)

SpecOut == InitOut /\ [][Next]_vars

InitArch == InitWith(CmdLines(ArchTokens, MaxArchArgs), BOOLEAN)

SpecArch == InitArch /\ [][Next]_vars

InitErr == InitWith(CmdLines(ErrTokens, MaxErrArgs), BOOLEAN)

SpecErr == InitErr /\ [][Next]_vars

InitTemps == InitWith(CmdLines(TempsTokens, MaxTempsArgs), BOOLEAN)

SpecTemps == InitTemps /\ [][Next]_vars

InitMode == InitWith(CmdLines(ModeTokens, MaxModeArgs), BOOLEAN)

SpecMode == InitMode /\ [][Next]_vars

InitPipe == InitWith(CmdLines(PipeTokens, MaxPipeArgs), BOOLEAN)

SpecPipe == InitPipe /\ [][Next]_vars

----------------------------------------------------------------------------
(* Properties of the driver.                                               *)

Built == pc = "built" /\ error = NoError

Bound == pc = "bound" /\ error = NoError

C1Line == <<OptO("out"), InputTok(FileA), InputTok(FileB)>>

\* C1 as stated: for `-o out a.c b.c` bindPhases raises "cannot specify -o
\* when generating multiple files" and constructs no job.
C1_Original ==
    (argv = C1Line /\ pc = "bound")
        => (error = MultipleFilesError /\ jobs = << >>)

\* C1 amended: with -c, `-c -o out a.c b.c` is rejected with that error and
\* no job is constructed; without a mode flag `-o out a.c b.c` is planned:
\* both inputs feed the single top-level Link action, whose command writes
\* out.
C1_Amended ==
    /\ (argv = <<Flag("-c")>> \o C1Line /\ pc = "bound")
          => (error = MultipleFilesError /\ jobs = << >>
              /\ exitStatus = ErrorStatus)
    /\ (argv = C1Line /\ pc = "bound")
          => /\ error = NoError
             /\ Len(phases) = 1
             /\ nodes[phases[1]].type = ImageType
             /\ jobs # << >>
             /\ jobs[Len(jobs)].phase = LinkPhase.name
             /\ Len(jobs[Len(jobs)].inputs) = 2
             /\ jobs[Len(jobs)].output = args[1]

C1_Witness ==
    argv = <<Flag("-c")>> \o C1Line /\ pc = "bound"
    /\ error = MultipleFilesError

NonNothingTop == {k \in 1..Len(phases) : nodes[phases[k]].type # NothingType}

\* C2: bindPhases raises "cannot specify -o when generating multiple files"
\* exactly when -o is present and more than one top-level action has a type
\* other than nothing, and then no job has been constructed.
C2_MultipleOutputsExactly ==
    pc = "bound" =>
        /\ error = MultipleFilesError
              <=> /\ \E i \in 1..Len(args) : args[i].opt = "-o"
                  /\ Cardinality(NonNothingTop) > 1
        /\ error = MultipleFilesError => (jobs = << >> /\ spawned = << >>)

C2_Witness ==
    /\ pc = "bound" /\ error = MultipleFilesError /\ useDriverDriver
    /\ Len(phases) = 2

FileOutputs ==
    {j \in 1..Len(jobs) : /\ jobs[j].class = "Command"
                          /\ jobs[j].output # NoArg
                          /\ ~IsPipedJobRef(jobs[j].output)
                          /\ ~IsTempPath(jobs[j].output.value)}

\* C3: in a planned job list no two commands have the same non-temporary
\* output path.
C3_UniqueOutputs ==
    Bound => \A i, j \in FileOutputs :
                 i # j => jobs[i].output.value # jobs[j].output.value

OOccurrences == {i \in 1..Len(args) : args[i].opt = "-o"}

LastO == CHOOSE i \in OOccurrences : \A j \in OOccurrences : j <= i

\* C4: with several -o, the command of the top-level action that produces
\* an output writes to the last -o, and no command writes to an earlier one.
C4_LastOutputWins ==
    (Bound /\ Cardinality(OOccurrences) > 1) =>
        \A j \in 1..Len(jobs) :
            /\ (jobs[j].atTopLevel /\ jobs[j].type # NothingType)
                  => jobs[j].output = args[LastO]
            /\ \A i \in OOccurrences \ {LastO} :
                  /\ jobs[j].output # args[i]
                  /\ args[i].value # args[LastO].value
                        => jobs[j].output.value # args[i].value

C4_Witness ==
    /\ Bound
    /\ \E i \in OOccurrences : args[i].value # args[LastO].value
    /\ \E j \in 1..Len(jobs) : jobs[j].output = args[LastO]

JobNodes == {n \in 1..Len(nodes) : nodes[n].class = "JobAction"}

\* The action below a BindArchAction, or the action itself.
Under(n) == IF nodes[n].class = "BindArchAction" THEN nodes[n].inputs[1] ELSE n

ChainsIncrease ==
    \A n \in JobNodes : \A k \in 1..Len(nodes[n].inputs) :
        LET i == Under(nodes[n].inputs[k])
        IN nodes[i].class = "JobAction"
              => nodes[i].phase.order < nodes[n].phase.order

\* C5 as stated: along every chain the phase orders strictly increase, and
\* the phase order of every JobAction, Link and Lipo included, is at most
\* the final phase.
C5_Original ==
    Built => /\ ChainsIncrease
             /\ \A n \in JobNodes : nodes[n].phase.order <= FinalPhase(args)

\* C5 amended: along every chain the phase orders strictly increase, and the
\* phase order of every JobAction other than Lipo is at most the final phase
\* (the Lipo action is also built when the final phase is Assemble).
C5_Amended ==
    Built => /\ ChainsIncrease
             /\ \A n \in JobNodes :
                   nodes[n].phase # LipoPhase
                      => nodes[n].phase.order <= FinalPhase(args)

C5_Witness ==
    /\ Built
    /\ FinalPhase(args) = eOrderAssemble
    /\ \E n \in JobNodes : nodes[n].phase = LipoPhase

BindNodes == {n \in 1..Len(nodes) : nodes[n].class = "BindArchAction"}

RECURSIVE Descendants(_)
Descendants(n) ==
    {n} \cup UNION {Descendants(nodes[n].inputs[k]) : k \in 1..Len(nodes[n].inputs)}

\* C6: a command below a BindArchAction is constructed with that action's
\* arch and with the arguments translated by that architecture's tool chain
\* for it, once per BindArchAction above it; the Lipo command is constructed
\* with no arch and the host tool chain's translation.
C6_ArchPinning ==
    Bound =>
      /\ \A j \in 1..Len(jobs) :
           LET c == jobs[j] IN
           IF nodes[c.action].phase = LipoPhase \/ ~useDriverDriver
             THEN /\ c.arch = NoArg
                  /\ c.tcArgs = [tc |-> HostToolChain, arch |-> NoArg]
             ELSE \E b \in BindNodes :
                    /\ c.action \in Descendants(nodes[b].inputs[1])
                    /\ c.arch = nodes[b].arch
                    /\ c.tcArgs = [tc |-> nodes[b].arch.value.base,
                                   arch |-> nodes[b].arch]
      /\ \A b \in BindNodes : \A j \in 1..Len(jobs) :
           jobs[j].action \in Descendants(nodes[b].inputs[1])
              => \E i \in 1..Len(jobs) : /\ jobs[i].action = jobs[j].action
                                         /\ jobs[i].arch = nodes[b].arch

C6_Witness ==
    /\ Bound
    /\ \E j \in 1..Len(jobs) : nodes[jobs[j].action].phase = LipoPhase
    /\ \E i, j \in 1..Len(jobs) : /\ jobs[i].action = jobs[j].action
                                  /\ jobs[i].arch.value # jobs[j].arch.value

\* The action of the normal pipeline that a top-level action stands for.
TopP(k) ==
    LET t == phases[k] IN
    IF nodes[t].class = "BindArchAction" THEN nodes[t].inputs[1]
    ELSE IF nodes[t].phase = LipoPhase THEN nodes[nodes[t].inputs[1]].inputs[1]
    ELSE t

RECURSIVE BaseInputIndex(_)
BaseInputIndex(n) ==
    IF nodes[n].class = "InputAction" THEN nodes[n].filename.index
    ELSE BaseInputIndex(nodes[n].inputs[1])

IsLinkAction(n) == nodes[n].phase = LinkPhase

MissingInputs ==
    {i \in 1..Len(args) : args[i].opt = "<input>" /\ ~PathExists(args[i].value)}

RemainingInputs ==
    {i \in 1..Len(args) : \/ args[i].opt = "<input>" /\ PathExists(args[i].value)
                          \/ IsLinkerInput(args[i].opt)}

StructuralErrors ==
    {"InvalidArguments: invalid option",
     "NotImplementedError: -combine is not yet supported",
     "InvalidArguments: unsupported use of internal gcc option",
     NoInputFiles,
     "InvalidArguments: Cannot use -M options with multiple arch flags.",
     "InvalidArguments: Cannot use -save-temps with multiple arch flags.",
     "InvalidArguments: Cannot use output with multiple arch flags.",
     MultipleFilesError}

\* C9: when the run has ended with a structural error, no command has been
\* spawned.
C9_NoSpawnOnError ==
    error \in StructuralErrors => (spawned = << >> /\ statuses = << >> /\ running = 0)

C9_Witness ==
    /\ error = MultipleFilesError
    /\ exitStatus = ErrorStatus
    /\ spawned = << >>

\* C10: the commands are spawned one at a time in job-list order, each after
\* the previous one has exited; after the first non-zero status nothing more
\* is spawned and the driver exits with that status.
C10_SequentialExecution ==
    /\ \A k \in 1..Len(spawned) : spawned[k] = k
    /\ Len(spawned) <= Len(jobs)
    /\ Len(statuses) = (IF running = 0 THEN Len(spawned) ELSE Len(spawned) - 1)
    /\ running # 0 => running = Len(spawned)
    /\ \A k \in 1..Len(statuses) :
         statuses[k] # 0 => /\ k = Len(statuses)
                            /\ Len(spawned) = k
                            /\ running = 0
                            /\ exitStatus = statuses[k]
    /\ (exitStatus = 0 /\ pc = "exec")
         => (Len(statuses) = Len(jobs) /\ \A k \in 1..Len(statuses) : statuses[k] = 0)

C10_Witness ==
    /\ Len(statuses) = 2
    /\ statuses[2] = 2
    /\ Len(jobs) > 2
    /\ exitStatus = 2

HasHashHashHash == \E i \in 1..Len(args) : args[i].opt = "-###"

\* C11: when -### is present and planning succeeded, the driver prints the
\* planned commands in job order, spawns nothing and exits with status 0;
\* for `-### -c a.c` two command lines are printed.
C11_HashHashHash ==
    /\ (Bound /\ HasHashHashHash) => (ENABLED PrintJobs /\ ~ENABLED Spawn)
    /\ HasHashHashHash => (spawned = << >> /\ statuses = << >> /\ pc # "exec")
    /\ pc = "jobs-printed"
          => /\ HasHashHashHash /\ error = NoError
             /\ printed = jobs
             /\ exitStatus = 0
    /\ (argv = <<Flag("-###"), Flag("-c"), InputTok(FileA)>> /\ pc = "jobs-printed")
          => Len(printed) = 2

C11_Witness ==
    /\ argv = <<Flag("-###"), Flag("-c"), InputTok(FileA)>>
    /\ pc = "jobs-printed"
    /\ Len(printed) = 2
    /\ exitStatus = 0

\* C12: a top-level Preprocess action with no -o writes to a pipe
\* (standard output), never to a file: for `-E a.c` the single command's
\* output is a pipe.
C12_PreprocessToPipe ==
    (Bound /\ FinalOutput(args) = NoArg) =>
        \A j \in 1..Len(jobs) :
            (jobs[j].class = "Command" /\ jobs[j].atTopLevel
             /\ jobs[j].phase = PreprocessPhase.name)
                => IsPipedJobRef(jobs[j].output)

\* The parsed command line with every -pipe removed.
ArgsWithoutPipe ==
    ParseArgs(SelectSeq([i \in 1..Len(args) |-> Tok(args[i].opt, args[i].value)],
                        LAMBDA t : t.opt # "-pipe"))

\* The job list planned for the arguments as.
PlannedJobs(as) ==
    LET Planned(b) == IF b.error # NoError THEN [jobs |-> << >>, error |-> b.error]
                      ELSE BindPhases(as, b.nodes, b.actions)
    IN Planned(IF useDriverDriver THEN BuildPipeline(as)
               ELSE BuildNormalPipeline(as))

OutputKind(output) ==
    IF output = NoArg THEN "none"
    ELSE IF IsPipedJobRef(output) THEN "pipe"
    ELSE IF IsTempPath(output.value) THEN "temp"
    ELSE "file"

\* A command without the positions of its arguments on the command line.
CommandShape(c) ==
    [class |-> c.class, phase |-> c.phase, arch |-> c.arch.value,
     inputs |-> [k \in 1..Len(c.inputs) |-> c.inputs[k].source.value],
     kind |-> OutputKind(c.output), output |-> c.output.value,
     type |-> c.type, atTopLevel |-> c.atTopLevel]

PlanShape(js) == [j \in 1..Len(js) |-> CommandShape(js[j])]

ArchOccurrences == {i \in 1..Len(args) : args[i].opt = "-arch"}

DashMGiven == \E i \in 1..Len(args) : StartsWithDashM(args[i].opt)

SaveTempsGiven ==
    \E i \in 1..Len(args) : args[i].opt \in {"-save-temps", "--save-temps"}

DashMError == "InvalidArguments: Cannot use -M options with multiple arch flags."

SaveTempsError ==
    "InvalidArguments: Cannot use -save-temps with multiple arch flags."

InvalidArgumentsErrors ==
    StructuralErrors \ {"NotImplementedError: -combine is not yet supported"}

\* C14 as stated: in driver-driver mode, with more than one -arch and any
\* -M* option or -save-temps/--save-temps, buildPipeline fails with
\* InvalidArguments.
C14_Original ==
    (pc = "built" /\ useDriverDriver /\ Cardinality(ArchOccurrences) > 1
     /\ (DashMGiven \/ SaveTempsGiven))
        => error \in InvalidArgumentsErrors

\* C14 amended: in driver-driver mode, with more than one -arch and any -M*
\* option or -save-temps/--save-temps, buildPipeline fails and returns no
\* actions: with the error of the normal pipeline when that fails (raised
\* first), otherwise with InvalidArguments "Cannot use -M options ..." when
\* a -M* option is given and "Cannot use -save-temps ..." when not; these
\* two errors are never raised with zero or one -arch, and no job is
\* constructed or run after them.
C14_Amended ==
    /\ (pc = "built" /\ useDriverDriver /\ Cardinality(ArchOccurrences) > 1
        /\ (DashMGiven \/ SaveTempsGiven))
          => /\ phases = << >> /\ exitStatus = ErrorStatus
             /\ error = (IF BuildNormalPipeline(args).error # NoError
                           THEN BuildNormalPipeline(args).error
                         ELSE IF DashMGiven THEN DashMError
                         ELSE SaveTempsError)
    /\ error \in {DashMError, SaveTempsError}
          => /\ useDriverDriver /\ Cardinality(ArchOccurrences) > 1
             /\ error = DashMError => DashMGiven
             /\ error = SaveTempsError => SaveTempsGiven
             /\ pc = "built" /\ jobs = << >> /\ spawned = << >>

C14_Witness ==
    /\ argv = <<OptArch("i386"), OptArch("x86_64"), Flag("--save-temps"),
                InputTok(FileA)>>
    /\ pc = "built"
    /\ error = SaveTempsError

CannotLipoError ==
    "InvalidArguments: Cannot use output with multiple arch flags."

\* The normal pipeline has a top-level action whose type lipo cannot combine.
HasUnlinkableTop(normal) ==
    \E k \in 1..Len(normal.actions) :
        normal.nodes[normal.actions[k]].type \notin {NothingType, ObjectType, ImageType}

\* C15: in driver-driver mode with more than one -arch, buildPipeline fails
\* with InvalidArguments when some top-level action of the normal pipeline
\* has a type other than nothing, object or image, and returns no actions;
\* with a single architecture no top-level type is rejected.
C15_UnlinkableRejected ==
    (pc = "built" /\ useDriverDriver) =>
        /\ (BuildNormalPipeline(args).error = NoError
            /\ Cardinality(ArchOccurrences) > 1
            /\ HasUnlinkableTop(BuildNormalPipeline(args)))
              => /\ error = (IF DashMGiven THEN DashMError
                             ELSE IF SaveTempsGiven THEN SaveTempsError
                             ELSE CannotLipoError)
                 /\ phases = << >> /\ exitStatus = ErrorStatus
        /\ error = CannotLipoError
              => /\ Cardinality(ArchOccurrences) > 1
                 /\ HasUnlinkableTop(BuildNormalPipeline(args))
        /\ Cardinality(ArchOccurrences) <= 1
              => /\ error = BuildNormalPipeline(args).error
                 /\ Len(phases) = Len(BuildNormalPipeline(args).actions)

C15_Witness ==
    /\ argv = <<OptArch("i386"), OptArch("x86_64"), Flag("-S"), InputTok(FileA)>>
    /\ pc = "built" /\ useDriverDriver
    /\ error = CannotLipoError

C16Line == <<OptArch("i386"), OptArch("x86_64"), Flag("-c"), InputTok(FileA)>>

\* Commands i and i + 1 are the compile and the assemble of a.c for arch.
CompilesAndAssembles(i, arch) ==
    /\ jobs[i].phase = CompilePhase.name
    /\ jobs[i].arch.value = Word(arch)
    /\ Len(jobs[i].inputs) = 1
    /\ jobs[i].inputs[1].source.value = FileA
    /\ OutputKind(jobs[i].output) = "temp"
    /\ jobs[i].type = AsmTypeNoPP
    /\ jobs[i + 1].phase = AssemblePhase.name
    /\ jobs[i + 1].arch.value = Word(arch)
    /\ jobs[i + 1].inputs = <<InputInfo(jobs[i].output, AsmTypeNoPP, jobs[i].inputs[1].source)>>
    /\ OutputKind(jobs[i + 1].output) = "temp"
    /\ jobs[i + 1].type = ObjectType
    /\ jobs[i].action = jobs[1].action
    /\ jobs[i + 1].action = jobs[2].action

\* C16: for `-arch i386 -arch x86_64 -c a.c` the driver driver plans the
\* compile and the assemble of the shared a.c chain once per architecture,
\* each object in its own temp file, then one Lipo command that reads the
\* two objects and writes a.o.
C16_LipoPlan ==
    (argv = C16Line /\ useDriverDriver /\ pc = "bound") =>
        /\ error = NoError
        /\ Len(jobs) = 5
        /\ CompilesAndAssembles(1, "i386")
        /\ CompilesAndAssembles(3, "x86_64")
        /\ Cardinality({jobs[j].output.value : j \in 1..4}) = 4
        /\ jobs[5].phase = LipoPhase.name
        /\ [k \in 1..Len(jobs[5].inputs) |-> jobs[5].inputs[k].source]
              = <<jobs[2].output, jobs[4].output>>
        /\ OutputKind(jobs[5].output) = "file"
        /\ jobs[5].output.value = Path("", "a", "o")
        /\ jobs[5].type = ObjectType

C16_Witness ==
    /\ argv = C16Line /\ useDriverDriver /\ pc = "bound"
    /\ Len(jobs) = 5
    /\ jobs[5].phase = LipoPhase.name

C17Line == <<Flag("-c"), InputTok(FileA)>>

\* C17: for `-c a.c` the plan is exactly two commands: a compile that reads
\* a.c and writes a temporary assembly file, then an assemble that reads
\* that file and writes a.o; no link command is planned.
C17_CompileOnlyPlan ==
    (argv = C17Line /\ pc = "bound") =>
        /\ error = NoError
        /\ Len(jobs) = 2
        /\ jobs[1].phase = CompilePhase.name
        /\ [k \in 1..Len(jobs[1].inputs) |-> jobs[1].inputs[k].source.value]
              = <<FileA>>
        /\ OutputKind(jobs[1].output) = "temp"
        /\ jobs[1].output.value.ext = "s"
        /\ jobs[1].type = AsmTypeNoPP
        /\ jobs[2].phase = AssemblePhase.name
        /\ [k \in 1..Len(jobs[2].inputs) |-> jobs[2].inputs[k].source]
              = <<jobs[1].output>>
        /\ OutputKind(jobs[2].output) = "file"
        /\ jobs[2].output.value = Path("", "a", "o")
        /\ \A j \in 1..Len(jobs) : jobs[j].phase # LinkPhase.name

C17_Witness ==
    /\ argv = C17Line /\ pc = "bound"
    /\ Len(jobs) = 2
    /\ jobs[2].output.value = Path("", "a", "o")

OptionsGiven == {args[i].opt : i \in 1..Len(args)}

\* The final phase as a function of the set of options given.
ExpectedFinalPhase ==
    IF "-E" \in OptionsGiven THEN eOrderPreprocess
    ELSE IF "-fsyntax-only" \in OptionsGiven THEN eOrderCompile
    ELSE IF "-S" \in OptionsGiven THEN eOrderCompile
    ELSE IF "-c" \in OptionsGiven THEN eOrderAssemble
    ELSE eOrderPostAssemble

InputNodes == {n \in 1..Len(nodes) : nodes[n].class = "InputAction"}

\* The phases of the JobActions built above the input n, Link excepted.
PhasesAbove(n) ==
    {nodes[m].phase : m \in {j \in JobNodes : /\ n \in Descendants(j)
                                              /\ nodes[j].phase \notin {LinkPhase, LipoPhase}}}

\* The phases of the sequence of type t up to the final phase, Link excepted.
PhasesUpTo(t, final) ==
    {PhaseSequence(t)[k] : k \in {j \in 1..Len(PhaseSequence(t)) :
                                     /\ PhaseSequence(t)[j].order <= final
                                     /\ PhaseSequence(t)[j] # LinkPhase}}

\* C18: the final phase depends only on which of -E, -fsyntax-only, -S, -c
\* are present: the chain of every input is built up to that phase, and the
\* Compile action has type nothing exactly under -fsyntax-only.
C18_FinalPhaseBySet ==
    Built =>
        /\ FinalPhase(args) = ExpectedFinalPhase
        /\ \A n \in InputNodes :
              PhasesAbove(n) = PhasesUpTo(nodes[n].type, ExpectedFinalPhase)
        /\ \A n \in JobNodes :
              /\ nodes[n].phase = CompilePhase
                    => nodes[n].type = (IF "-fsyntax-only" \in OptionsGiven
                                          THEN NothingType ELSE AsmTypeNoPP)
              /\ nodes[n].phase = LinkPhase
                    => ExpectedFinalPhase = eOrderPostAssemble

C18_Witness ==
    /\ Built
    /\ \E i, j \in 1..Len(args) : /\ i < j
                                  /\ args[i].opt = "-E" /\ args[j].opt = "-c"
    /\ \E n \in JobNodes : nodes[n].phase = PreprocessPhase

\* The position in args of the argument an InputAction was made from.
ArgPosition(n) == CHOOSE i \in 1..Len(args) : args[i] = nodes[n].filename

\* The positions of the -x arguments before position i.
XBefore(i) == {j \in 1..(i - 1) : args[j].opt = "-x"}

\* The type the claim gives the positional input at position i.
TypeByNearestX(i) ==
    IF XBefore(i) = {} THEN ClassifyBySuffix(args[i].value)
    ELSE LET j == CHOOSE k \in XBefore(i) : \A l \in XBefore(i) : l <= k
             name == args[j].value.base
         IN IF name = "none" THEN ClassifyBySuffix(args[i].value)
            ELSE IF name \in TypeSpecifiers THEN name
            ELSE ObjectType

PositionalInputNodes == {n \in InputNodes : nodes[n].filename.opt = "<input>"}

C19Line == <<OptX("c++"), InputTok(FileFooM), OptX("none"), InputTok(FileA)>>

\* C19: every positional input has the type named by the nearest -x before
\* it (an unknown name meaning object, none meaning by suffix) and the type
\* of its suffix when no -x precedes it; `-x c++ foo.m -x none a.c` makes
\* foo.m C++ and a.c C.
C19_NearestXClassifies ==
    Built =>
        /\ \A n \in PositionalInputNodes :
              nodes[n].type = TypeByNearestX(ArgPosition(n))
        /\ argv = C19Line =>
              /\ \E n \in PositionalInputNodes :
                    nodes[n].filename.value = FileFooM /\ nodes[n].type = "c++"
              /\ \E n \in PositionalInputNodes :
                    nodes[n].filename.value = FileA /\ nodes[n].type = "c"

C19_Witness ==
    /\ Built
    /\ argv = C19Line
    /\ Cardinality(PositionalInputNodes) = 2

C19_WitnessUnknown ==
    /\ Built
    /\ \E n \in PositionalInputNodes :
          /\ XBefore(ArgPosition(n)) # {}
          /\ args[ArgPosition(n) - 1].opt = "-x"
          /\ args[ArgPosition(n) - 1].value.base = "bogus"
          /\ \E j \in (ArgPosition(n) + 1)..Len(args) : args[j].opt = "-x"

\* The architectures of the command line, one per -arch occurrence in
\* order, or the host architecture when there is none.
ArchNames ==
    LET given == SelectSeq(args, LAMBDA a : a.opt = "-arch")
    IN IF given = << >> THEN <<Word(HostArchName)>>
       ELSE [k \in 1..Len(given) |-> given[k].value]

\* The BindArchActions whose only child is the node p.
Wrappers(p) == {b \in BindNodes : nodes[b].inputs = <<p>>}

LipoNodes == {n \in JobNodes : nodes[n].phase = LipoPhase}

\* The top-level actions made for p, in order.
TopLevelFor(p) ==
    SelectSeq(phases, LAMBDA t : \/ t \in Wrappers(p)
                                 \/ /\ t \in LipoNodes
                                    /\ \E k \in 1..Len(nodes[t].inputs) :
                                          nodes[t].inputs[k] \in Wrappers(p))

ArchsOf(bs) == [k \in 1..Len(bs) |-> nodes[bs[k]].arch.value]

RECURSIVE Concat(_)
Concat(ss) == IF ss = << >> THEN << >> ELSE Head(ss) \o Concat(Tail(ss))

\* C20: in driver-driver mode every top-level action p of the normal
\* pipeline has one BindArchAction per -arch occurrence, in -arch order, each
\* with p itself as only child and none below another; with one occurrence or
\* a p of type nothing these are the top-level actions, otherwise the only
\* top-level action for p is one Lipo JobAction of p's type over them.
C20_ArchMultiplication ==
    (Built /\ useDriverDriver) =>
      \E normal \in {BuildNormalPipeline(args)} :
        /\ normal.error = NoError
        /\ SubSeq(nodes, 1, Len(normal.nodes)) = normal.nodes
        /\ BindNodes = UNION {Wrappers(normal.actions[k]) :
                                 k \in 1..Len(normal.actions)}
        /\ \A b \in BindNodes :
              /\ Len(nodes[b].inputs) = 1
              /\ Descendants(nodes[b].inputs[1]) \cap BindNodes = {}
        /\ phases = Concat([k \in 1..Len(normal.actions) |->
                               TopLevelFor(normal.actions[k])])
        /\ \A k \in 1..Len(normal.actions) :
              LET p == normal.actions[k]
                  top == TopLevelFor(p)
              IN /\ Cardinality(Wrappers(p)) = Len(ArchNames)
                 /\ IF Len(ArchNames) = 1 \/ nodes[p].type = NothingType
                      THEN /\ Len(top) = Len(ArchNames)
                           /\ \A j \in 1..Len(top) : top[j] \in Wrappers(p)
                           /\ ArchsOf(top) = ArchNames
                           /\ \A l \in LipoNodes : \A j \in 1..Len(nodes[l].inputs) :
                                 nodes[l].inputs[j] \notin Wrappers(p)
                      ELSE /\ Len(top) = 1
                           /\ top[1] \in LipoNodes
                           /\ nodes[top[1]].type = nodes[p].type
                           /\ Len(nodes[top[1]].inputs) = Len(ArchNames)
                           /\ {nodes[top[1]].inputs[j] : j \in 1..Len(ArchNames)}
                                 = Wrappers(p)
                           /\ ArchsOf(nodes[top[1]].inputs) = ArchNames
                           /\ Cardinality({l \in LipoNodes :
                                 \E j \in 1..Len(nodes[l].inputs) :
                                    nodes[l].inputs[j] \in Wrappers(p)}) = 1

C20_Witness ==
    /\ Built /\ useDriverDriver
    /\ Len(ArchNames) = 2
    /\ Cardinality(BindNodes) = 4
    /\ Cardinality(LipoNodes) = 2

C20_WitnessNothing ==
    /\ Built /\ useDriverDriver
    /\ Len(ArchNames) = 2
    /\ LipoNodes = {}
    /\ Len(phases) = 2

\* The type of the input argument at position i of args.
InputClass(i) ==
    IF args[i].opt = "<input>" THEN TypeByNearestX(i) ELSE ObjectType

\* The inputs whose first phase is past the final phase.
UnusedInputs ==
    {i \in RemainingInputs :
        PhaseSequence(InputClass(i))[1].order > ExpectedFinalPhase}

\* The argument list without the unused inputs.
ArgsWithoutUnused ==
    LET keep == {i \in 1..Len(args) : i \notin UnusedInputs}
        F[i \in 0..Len(args)] ==
          IF i = 0 THEN << >>
          ELSE IF i \in keep THEN Append(F[i - 1], args[i]) ELSE F[i - 1]
    IN F[Len(args)]

\* C21: an input whose first phase is past the final phase gives one
\* "input file unused" warning and no action at all, and the pipeline is the
\* one built for the command line without that input.
C21_UnusedInputSkipped ==
    (pc = "built" /\ error \notin StructuralErrors) =>
      /\ error = NoError
      /\ \A i \in UnusedInputs :
           /\ Cardinality({w \in 1..Len(warnings) :
                             /\ warnings[w].kind = "input file unused"
                             /\ warnings[w].value = args[i].value})
                 = Cardinality({k \in UnusedInputs : args[k].value = args[i].value})
           /\ \A n \in 1..Len(nodes) : nodes[n].filename # args[i]
      /\ Cardinality({w \in 1..Len(warnings) : warnings[w].kind = "input file unused"})
            = Cardinality(UnusedInputs)
      /\ \E r \in {IF useDriverDriver THEN BuildPipeline(ArgsWithoutUnused)
                     ELSE BuildNormalPipeline(ArgsWithoutUnused)} :
            IF RemainingInputs \ UnusedInputs = {}
              THEN nodes = << >> /\ phases = << >>
              ELSE r.error = NoError /\ nodes = r.nodes /\ phases = r.actions

C21_Witness ==
    /\ Built
    /\ UnusedInputs # {}
    /\ RemainingInputs \ UnusedInputs # {}
    /\ \E w \in 1..Len(warnings) : warnings[w].kind = "input file unused"
    /\ phases # << >>

AssemblyTypes == {"assembler", "assembler-with-cpp"}

\* C22: in every pipeline built no JobAction has an input of type nothing,
\* an Assemble action has type object and one input of an assembly type, a
\* Compile action has type assembly, or nothing under -fsyntax-only, and the
\* Link action has type image.
C22_TypesConsistent ==
    Built =>
      \A n \in JobNodes :
        /\ Len(nodes[n].inputs) >= 1
        /\ \A k \in 1..Len(nodes[n].inputs) :
              nodes[nodes[n].inputs[k]].type # NothingType
        /\ nodes[n].phase = AssemblePhase
              => /\ nodes[n].type = ObjectType
                 /\ Len(nodes[n].inputs) = 1
                 /\ nodes[nodes[n].inputs[1]].type \in AssemblyTypes
        /\ nodes[n].phase = CompilePhase
              => /\ nodes[n].type \in {AsmTypeNoPP, NothingType}
                 /\ nodes[n].type = NothingType
                       <=> "-fsyntax-only" \in OptionsGiven
        /\ nodes[n].phase = LinkPhase => nodes[n].type = ImageType

C22_Witness ==
    /\ Built
    /\ "-c" \in OptionsGiven
    /\ \E m \in JobNodes :
          /\ nodes[m].phase = CompilePhase /\ nodes[m].type = NothingType
          /\ \A n \in JobNodes : m \notin {nodes[n].inputs[k] : k \in 1..Len(nodes[n].inputs)}

C22_WitnessLink ==
    /\ Built
    /\ \E n, m, l \in JobNodes :
          /\ nodes[n].phase = AssemblePhase /\ nodes[n].inputs = <<m>>
          /\ nodes[m].phase = CompilePhase
          /\ nodes[l].phase = LinkPhase /\ nodes[l].inputs = <<n>>

LinkNodes == {n \in JobNodes : nodes[n].phase = LinkPhase}

\* The positions in args of the inputs whose chain reaches the Link phase.
LinkingInputs ==
    {i \in RemainingInputs :
        LET sequence == PhaseSequence(InputClass(i))
        IN /\ sequence[Len(sequence)] = LinkPhase
           /\ ExpectedFinalPhase = eOrderPostAssemble}

\* The argument at the bottom of the chain that ends in the node n.
RECURSIVE BaseInputArg(_)
BaseInputArg(n) ==
    IF nodes[n].class = "InputAction" THEN nodes[n].filename
    ELSE BaseInputArg(nodes[n].inputs[1])

\* The users of the node n: the actions that have it as an input.
UsersOf(n) ==
    {m \in 1..Len(nodes) : \E k \in 1..Len(nodes[m].inputs) : nodes[m].inputs[k] = n}

\* C23: a pipeline has at most one Link action; it exists exactly when the
\* chain of some input reaches the Link phase, its inputs are the final
\* actions of those chains, each once and in input order, and none of them
\* is a top-level action.
C23_SingleLink ==
    Built =>
      /\ Cardinality(LinkNodes) <= 1
      /\ LinkNodes # {} <=> LinkingInputs # {}
      /\ \A l \in LinkNodes :
           LET ins == nodes[l].inputs IN
           /\ Len(ins) = Cardinality(LinkingInputs)
           /\ \A j \in 1..Len(ins) :
                 /\ nodes[ins[j]].class \in {"InputAction", "JobAction"}
                 /\ \E i \in LinkingInputs :
                       /\ args[i] = BaseInputArg(ins[j])
                       /\ Cardinality({h \in LinkingInputs : h <= i}) = j
                 /\ UsersOf(ins[j]) = {l}
                 /\ \A k \in 1..Len(phases) :
                       phases[k] # ins[j] /\ TopP(k) # ins[j]
           /\ \E k \in 1..Len(phases) : TopP(k) = l

C23_Witness ==
    /\ Built
    /\ \E l \in LinkNodes :
          /\ Len(nodes[l].inputs) = 3
          /\ \E j \in 1..3 : nodes[nodes[l].inputs[j]].class = "JobAction"
          /\ \E j \in 1..3 : nodes[nodes[l].inputs[j]].class = "InputAction"

\* The JobActions whose only input is a Preprocess JobAction.
OverPreprocess ==
    {n \in JobNodes : /\ Len(nodes[n].inputs) = 1
                      /\ nodes[nodes[n].inputs[1]].class = "JobAction"
                      /\ nodes[nodes[n].inputs[1]].phase = PreprocessPhase}

SeparateCPPOptions ==
    {"-no-integrated-cpp", "-traditional-cpp", "-save-temps", "--save-temps"}

\* The condition under which the claim has the action n fused.
ShouldFuse(n) ==
    /\ n \in OverPreprocess
    /\ HasIntegratedCPP(SelectTool(nodes[n]))
    /\ OptionsGiven \cap SeparateCPPOptions = {}

CommandsOf(n) == {j \in 1..Len(jobs) : jobs[j].action = n}

\* C24: a JobAction over a Preprocess action is fused with it exactly when
\* its tool has an integrated preprocessor and none of -no-integrated-cpp,
\* -traditional-cpp, -save-temps, --save-temps is given; fused, there is no
\* preprocess command and the command reads the preprocessor's own input;
\* not fused, the preprocess command comes just before it and feeds it.
C24_IntegratedCPP ==
    Bound =>
      \A n \in OverPreprocess :
        LET p == nodes[n].inputs[1]
            source == nodes[nodes[p].inputs[1]].filename
        IN /\ CommandsOf(n) # {}
           /\ CommandsOf(p) = {} <=> ShouldFuse(n)
           /\ \A j \in CommandsOf(n) :
                 IF ShouldFuse(n)
                   THEN jobs[j].inputs
                           = <<InputInfo(source, nodes[nodes[p].inputs[1]].type, source)>>
                   ELSE /\ j > 1
                        /\ jobs[j - 1].action = p
                        /\ jobs[j - 1].arch = jobs[j].arch
                        /\ jobs[j - 1].inputs[1].source = source
                        /\ jobs[j].inputs
                              = <<InputInfo(jobs[j - 1].output, nodes[p].type, source)>>

C24_Witness ==
    /\ Bound
    /\ "-traditional-cpp" \in OptionsGiven
    /\ \E n \in OverPreprocess :
          /\ HasIntegratedCPP(SelectTool(nodes[n]))
          /\ CommandsOf(nodes[n].inputs[1]) # {}
          /\ CommandsOf(n) # {}

C24_WitnessFused ==
    /\ Bound
    /\ \E n \in OverPreprocess : ShouldFuse(n) /\ CommandsOf(n) # {}

\* The commands that write to the destination of the user's -o.
FinalOutputWriters ==
    {j \in 1..Len(jobs) : /\ jobs[j].output # NoArg
                          /\ jobs[j].output.value = FinalOutput(args).value}

\* The actions that are top-level or the child of a top-level BindArchAction.
TopActions ==
    {phases[k] : k \in 1..Len(phases)}
    \cup {nodes[phases[k]].inputs[1] :
             k \in {h \in 1..Len(phases) : nodes[phases[h]].class = "BindArchAction"}}

\* C25: the destination of the user's -o is written by at most one command
\* of the plan, and that command implements a top-level action or the child
\* of a top-level BindArchAction.
C25_FinalOutputOnce ==
    (Bound /\ FinalOutput(args) # NoArg) =>
        /\ Cardinality(FinalOutputWriters) <= 1
        /\ \A j \in FinalOutputWriters : jobs[j].action \in TopActions

\* The commands that write a file.
FileWriters ==
    {j \in 1..Len(jobs) : /\ jobs[j].class = "Command"
                          /\ jobs[j].output # NoArg
                          /\ ~IsPipedJobRef(jobs[j].output)}

\* The derived candidate of a command, in the working directory.
CandidateName(j) ==
    IF jobs[j].type = ImageType THEN Path("", "a", "out")
    ELSE [dir |-> "", base |-> BaseInputArg(jobs[j].action).value.base,
          ext |-> TypeTempSuffix(jobs[j].type), n |-> 0]

\* C26: a command that is top-level without -o, or not top-level with
\* -save-temps, writes the base name of its derived candidate in the working
\* directory; a command that is not top-level without -save-temps writes a
\* fresh temp file no other command writes; with -save-temps no temp file is
\* reserved.
C26_OutputNaming ==
    Bound =>
      \A j \in FileWriters :
        LET top == jobs[j].action \in TopActions
            out == jobs[j].output
        IN /\ ((top /\ FinalOutput(args) = NoArg) \/ (~top /\ SaveTempsGiven))
                 => (out.opt = "-o" /\ out.value = CandidateName(j))
           /\ (~top /\ ~SaveTempsGiven)
                 => /\ IsTempPath(out.value)
                    /\ out.value.ext = TypeTempSuffix(jobs[j].type)
                    /\ \A i \in FileWriters \ {j} : jobs[i].output.value # out.value
           /\ SaveTempsGiven => ~IsTempPath(out.value)

C26_Witness ==
    /\ Bound
    /\ ~SaveTempsGiven /\ FinalOutput(args) = NoArg
    /\ \E i, j, k \in FileWriters :
          /\ i # j
          /\ IsTempPath(jobs[i].output.value) /\ IsTempPath(jobs[j].output.value)
          /\ jobs[k].action \in TopActions
          /\ jobs[k].output.value = Path("", "a", "out")

C26_WitnessSaveTemps ==
    /\ Bound /\ SaveTempsGiven
    /\ \E j \in FileWriters : jobs[j].action \notin TopActions

PhasesPrinted == pc = "phases-printed"

\* The name printPhases gives a node, without the architecture.
PrintedName(n) ==
    IF nodes[n].class = "InputAction" THEN "input" ELSE nodes[n].phase.name

\* C27: -ccc-print-phases prints every InputAction and JobAction once, with
\* increasing numbers, and every number in the input list of a line is the
\* number of an earlier line, also for pipelines with BindArchAction and
\* Lipo nodes.
C27_PrintPhases ==
    PhasesPrinted =>
      /\ Len(printed) = Cardinality(InputNodes \cup JobNodes)
      /\ \A n \in InputNodes \cup JobNodes :
            Cardinality({k \in 1..Len(printed) :
                            /\ printed[k].name = PrintedName(n)
                            /\ printed[k].type = nodes[n].type})
              = Cardinality({m \in InputNodes \cup JobNodes :
                                /\ PrintedName(m) = PrintedName(n)
                                /\ nodes[m].type = nodes[n].type})
      /\ \A k \in 1..Len(printed) :
            /\ \A h \in 1..(k - 1) : printed[h].index < printed[k].index
            /\ \A i \in 1..Len(printed[k].inputs) :
                  \E h \in 1..(k - 1) : printed[h].index = printed[k].inputs[i]

C27_NormalPipelines == ~useDriverDriver => C27_PrintPhases

C27_SingleArch == Cardinality(ArchOccurrences) <= 1 => C27_PrintPhases

\* The files a command reads.
FilesRead(j) == {jobs[j].inputs[i].source.value : i \in 1..Len(jobs[j].inputs)}

\* The top-level actions a command was constructed under.
TopsOf(j) ==
    {k \in 1..Len(phases) :
        /\ jobs[j].action \in Descendants(phases[k])
        /\ nodes[phases[k]].class = "BindArchAction"
              => jobs[j].arch = nodes[phases[k]].arch}

ProducersFirst ==
    \A j \in FileWriters : \A h \in 1..Len(jobs) :
        jobs[j].output.value \in FilesRead(h) => j < h

TopLevelGrouped ==
    \A j, h \in 1..Len(jobs) :
        j < h => \A k \in TopsOf(j) : \A m \in TopsOf(h) : k <= m

C28Line == <<InputTok(FileA), InputTok(FileBarO), OptO("out")>>

\* C28: in the job list every command that writes a file comes before every
\* command that reads that file, the commands of an earlier top-level action
\* come before those of a later one, and `a.c bar.o -o out` is planned as
\* the a.c chain ending in a temp object, then one link command reading that
\* object and bar.o and writing out.
C28_PlanOrder ==
    Bound =>
      /\ ProducersFirst
      /\ TopLevelGrouped
      /\ (argv = C28Line /\ ~useDriverDriver) =>
            /\ Len(jobs) = 3
            /\ jobs[1].phase = CompilePhase.name
            /\ jobs[2].phase = AssemblePhase.name
            /\ jobs[2].inputs[1].source = jobs[1].output
            /\ jobs[2].type = ObjectType /\ IsTempPath(jobs[2].output.value)
            /\ jobs[3].phase = LinkPhase.name
            /\ [i \in 1..2 |-> jobs[3].inputs[i].source.value]
                  = <<jobs[2].output.value, FileBarO>>
            /\ jobs[3].output.value = Word("out")

\* The plans in which no file is written twice and no input is overwritten.
NoCollision ==
    /\ \A i, j \in FileWriters : i # j => jobs[i].output.value # jobs[j].output.value
    /\ \A j \in FileWriters : \A i \in 1..Len(args) :
          args[i].opt = "<input>" => jobs[j].output.value # args[i].value

C28_WithoutCollision == NoCollision => C28_PlanOrder

C28_ExampleReached == Bound /\ argv = C28Line /\ ~useDriverDriver /\ Len(jobs) = 3

PipedJobError == "NotImplementedError: Piped jobs aren't implemented yet."

ModeFlags == {"-E", "-fsyntax-only", "-S", "-c"}

UnusedWarnings == {w \in 1..Len(warnings) : warnings[w].kind = "input file unused"}

\* C30: the assertion before the "input file unused" warning never fails;
\* an input is reported unused only when a mode flag is given, and without
\* one every classified input is below a top-level action.
C30_UnusedOnlyWithModeFlag ==
    /\ error # "AssertionError"
    /\ pc = "built" =>
          /\ UnusedWarnings # {} => OptionsGiven \cap ModeFlags # {}
          /\ (Built /\ OptionsGiven \cap ModeFlags = {}) =>
                /\ UnusedInputs = {}
                /\ \A i \in RemainingInputs :
                      \E n \in InputNodes : \E k \in 1..Len(phases) :
                          /\ nodes[n].filename = args[i]
                          /\ n \in Descendants(phases[k])

C30_Witness ==
    /\ Built
    /\ OptionsGiven \cap ModeFlags = {}
    /\ \E i, j \in RemainingInputs :
          /\ InputClass(i) = ObjectType
          /\ InputClass(j) = "c-header"
    /\ Len(phases) = 2

C30_WitnessUnused == Built /\ UnusedWarnings # {}

HandedIndices == {handed[a].index : a \in 1..Len(handed)}

\* get hands each index to at most one thread, in increasing order.
HandedInOrder ==
    \A a, b \in 1..Len(handed) : a < b => handed[a].index < handed[b].index

AllEnded == \A t \in Testers : Ended(t)

\* C31: get hands each test index to at most one thread and in increasing
\* order; with no maxTime, once the Tester threads have ended every index
\* 0..n-1 has been handed out exactly once and get has nothing left.
C31_EachIndexOnce ==
    /\ HandedInOrder
    /\ (opts.maxTime = NoMaxTime /\ numThreads > 0 /\ AllEnded) =>
          /\ HandedIndices = 0..(tests - 1)
          /\ Len(handed) = tests
          /\ testIndex >= tests

C31_WhenTestsRun == ~opts.debugDoNotTest => C31_EachIndexOnce

C31_Reached ==
    /\ opts.maxTime = NoMaxTime /\ ~opts.debugDoNotTest
    /\ numThreads = 2 /\ tests = 3 /\ joined
    /\ \E a, b \in 1..Len(handed) : handed[a].tester # handed[b].tester

\* The scheduler runs every Tester thread that can take a step.
FairSpecMTR ==
    /\ SpecMTR
    /\ \A t \in 1..MaxThreads :
          WF_<<vars, mtrVars>>(/\ t \in Testers
                               /\ Acquire(t) \/ Get(t) \/ RunTest(t) \/ SetResult(t))

\* When the tests are run, every Tester thread ends with nothing left to get.
C31_TestersEnd ==
    ~opts.debugDoNotTest ~> (AllEnded /\ (opts.maxTime = NoMaxTime => testIndex >= tests))

(***************************************************************************)
(* The results of the tests that were handed out.                          *)
(***************************************************************************)

\* Thread t has taken index i and has not yet come back to get.
Working(t, i) == item[t] = i /\ tpc[t] \in {"runTest", "setResult"}

\* The handed-out test a has its TestResult, stored by the thread that took it.
Stored(a) ==
    /\ results[handed[a].index + 1] # NoResult
    /\ results[handed[a].index + 1].path = handed[a].index
    /\ \E w \in 1..Len(written) : written[w] = handed[a]

\* No results slot is written twice, by one thread or by two.
SlotsWrittenOnce ==
    \A v, w \in 1..Len(written) : v # w => written[v].index # written[w].index

\* main lines 312-318 meet no None among the results.
NoneLeft == \A i \in 1..tests : results[i] # NoResult

\* C32: every test handed out by get has its TestResult stored in
\* results[index] by the thread that took it before that thread asks for
\* another test, no slot is written twice, and with no maxTime, once all
\* threads are joined, no entry of results is None, whatever the options.
C32_ResultsStored ==
    /\ \A a \in 1..Len(handed) :
          Working(handed[a].tester, handed[a].index) \/ Stored(a)
    /\ SlotsWrittenOnce
    /\ (opts.maxTime = NoMaxTime /\ numThreads > 0 /\ joined) => NoneLeft

C32_WhenTestsRun == ~opts.debugDoNotTest => C32_ResultsStored

C32_Reached ==
    /\ opts.maxTime = NoMaxTime /\ ~opts.debugDoNotTest
    /\ numThreads = 2 /\ tests = 3 /\ joined /\ NoneLeft
    /\ \E v, w \in 1..Len(written) : written[v].tester # written[w].tester

====
